---- MODULE Spec2Model ----
(***************************************************************************)
(* Model of the Huawei Cloud plugin of cloud-custodian.                    *)
(*                                                                         *)
(* Part 1: actions/autotag.py, the AutoTagUser event action.               *)
(*                                                                         *)
(* Python values are represented as follows.                               *)
(*   - a dict is a function whose DOMAIN is its key set;                   *)
(*   - a str that is split on "=" is a sequence of atoms, each atom being  *)
(*     either the separator "=" or a maximal "="-free substring;           *)
(*   - None, where it is compared with strings, is the atom None below;    *)
(*   - a dict that keeps insertion order (new_tags) is a sequence of       *)
(*     [key, value] records with pairwise distinct keys.                   *)
(***************************************************************************)
EXTENDS Integers, Sequences, FiniteSets, TLC

VARIABLES
    cfg,        \* self.data of the AutoTagUser action
    event,      \* the audit event handed to process
    resources,  \* the resource batch handed to process
    cloud,      \* provider side tag store: resource id -> dict of tags
    runs,       \* one record per finished process invocation, oldest first
    tag_value,  \* what get_tag_value returned last
    pc,         \* "ready" | "ran" | "fetched" | "reran"
    \* filters/vpc.py: the NetworkLocation filter and what it works on
    \*   data      self.data of the filter
    \*   registry  names held by manager.filter_registry
    \*   net       provider side: security groups, subnets, route tables
    \*   batch     the resource batch handed to process
    \*   trace     collaborator calls and evaluations made so far, in order
    \*   evals     the evaluation list process_resource built, per resource
    \*   records   the records of the batch as process left them
    \*   results   what NetworkLocation.process returned
    \*   error     the exception NetworkLocation.validate raised, or None
    \*   pc        "new" | "valid" | "rejected" | "done"
    nl,
    \* filters/vpc.py: the SubnetFilter
    \*   data      self.data of the filter
    \*   trace     collaborator calls SubnetFilter.process made, in order
    \*   results   what SubnetFilter.process returned
    \*   pc        "valid" | "done"
    sf,
    \* resources/functiongraph.py: FunctionTrigger or ReservedConcurrency
    \*   kind      the filter: "trigger-type" | "reserved-concurrency"
    \*   data      self.data of the filter
    \*   api       provider side: func_urn -> response of the list call
    \*   input     the resource batch as it was handed to process
    \*   batch     the resource records, as the tasks have left them so far
    \*   task      per resource: the state of its _augment task
    \*   outcome   what process returned or raised
    \*   calls     self.data as each call of process used it, in call order
    \*   pc        "ready" | "pool" | "draining" | "done"
    fg,
    \* resources/coc.py: ScriptNonReviewerFilter
    \*   batch     the scripts handed to process
    \*   result    what process returned
    \*   pc        "ready" | "done"
    coc,
    \* resources/functiongraph.py: the action trim-versions on one function
    \*   data      self.data of the action
    \*   versions  provider side: the versions list_function_versions returns
    \*   aliases   provider side: the body of list_version_aliases, as the
    \*             names of the versions its aliases bind, or None
    \*   fail      the call that raises ClientRequestException: "none",
    \*             "list_function_versions", "list_version_aliases" or the
    \*             name of the version whose delete_function fails
    \*   idx       the place of the loop in versions
    \*   deleted   names of the versions delete_function was called for
    \*   outcome   "none" | "returned" | "PolicyExecutionError"
    \*   pc        "ready" | "loop" | "done"
    tv,
    \* actions/elb.py: the action create-lts-log-transfer on one batch
    \*   data      self.data of the action
    \*   batch     the load balancers handed to process
    \*   api       provider side: log_topic_id -> how create_transfer ends
    \*   idx       the place of the loop in the batch
    \*   seen      log_topic_id_set
    \*   calls     the create_transfer requests made, in order
    \*   outcome   "none" | "returned" | the exception that left process
    \*   pc        "ready" | "loop" | "done"
    elb,
    \* resources/coc.py: the action patch_non_compliant_alarm on one batch
    \*   data      self.data of the action
    \*   batch     the resources handed to process
    \*   api       provider side: topic_urn -> how publish_message ends
    \*   idx       the place of the loop in topic_urn_list
    \*   hosts     patch_non_compliant_data
    \*   sent      the publish_message requests made, in order
    \*   results   the list process builds of the messages published
    \*   outcome   "none" | "returned" | the exception that left process
    \*   pc        "ready" | "loop" | "done"
    alarm

tag_vars == <<cfg, event, resources, cloud, runs, tag_value, pc>>
nl_vars == <<nl>>
sf_vars == <<sf>>
fg_vars == <<fg>>
coc_vars == <<coc>>
action_vars == <<tv, elb, alarm>>
vars == <<tag_vars, nl_vars, sf_vars, fg_vars, coc_vars, action_vars>>

(***************************************************************************)
(* Bounds of the model.                                                    *)
(***************************************************************************)
MaxRes == 2     \* largest resource batch

(***************************************************************************)
(* Python helpers.                                                         *)
(***************************************************************************)
None == "<None>"
EmptyDict == [k \in {} |-> ""]

\* dict.get(key, default)
Get(d, key, default) == IF key \in DOMAIN d THEN d[key] ELSE default

\* bool(v) for v a str or None
Truthy(v) == v # None /\ v # ""

\* str.split('=') on a sequence of atoms: the "="-free pieces, in order
RECURSIVE SplitEq(_)
SplitEq(s) ==
    IF s = <<>> THEN <<"">>
    ELSE IF Head(s) = "=" THEN <<"">> \o SplitEq(Tail(s))
    ELSE <<Head(s)>> \o Tail(SplitEq(Tail(s)))

\* d[key] = value on a plain dict
DictPut(d, key, value) == [k \in DOMAIN d \cup {key} |-> IF k = key THEN value ELSE d[k]]

\* d[key] = value on an insertion-ordered dict
ODictPut(od, key, value) ==
    IF \E i \in 1..Len(od) : od[i].key = key
    THEN [i \in 1..Len(od) |-> IF od[i].key = key THEN [key |-> key, value |-> value] ELSE od[i]]
    ELSE Append(od, [key |-> key, value |-> value])

DEFAULT_TAG == "auto-tag-user-tag"
DefaultUserTypes == {"AssumedRole", "IAMUser", "FederatedUser"}

(***************************************************************************)
(* AutoTagUser.get_user_info_value                                         *)
(***************************************************************************)
get_user_info_value(utype, ev, c) ==
    LET user_info == ev["user"]
        vtype == Get(c, "value", None)
    IN  IF vtype = None THEN None
        ELSE IF vtype = "userName"
             THEN IF utype = "IAMUser" THEN Get(user_info, "userName", "")
                  ELSE IF utype = "AssumedRole" \/ utype = "FederatedUser"
                       THEN Get(user_info, "userName", "")
                       ELSE None
        ELSE IF vtype = "sourceIPAddress" THEN Get(ev, "source_ip", "")
        ELSE IF vtype = "principalId" THEN Get(user_info, "principalId", "")
        ELSE None

(***************************************************************************)
(* AutoTagUser.get_tag_value: NoUserInfo is the bare return (None).        *)
(***************************************************************************)
NoUserInfo == [isNone |-> TRUE]

\* mutant: the user-type option is not read, the default list is used
get_tag_value_default_types(ev, c) ==
    LET user_info == ev["user"]
        utype == user_info["type"]
    IN  IF utype \notin DefaultUserTypes THEN NoUserInfo
        ELSE [user |-> user_info["name"], id |-> Get(user_info, "principal_id", ""),
              value |-> get_user_info_value(utype, ev, c)]

get_tag_value(ev, c) ==
    LET user_info == ev["user"]
        utype == user_info["type"]
    IN  IF utype \notin Get(c, "user-type", DefaultUserTypes) THEN NoUserInfo
        ELSE LET named == utype = "IAMUser" \/ utype = "AssumedRole" \/ utype = "FederatedUser"
                 user == IF named THEN user_info["name"] ELSE None
                 principal_id_value ==
                     IF named THEN Get(user_info, "principal_id", "") ELSE None
             IN  [user |-> user, id |-> principal_id_value,
                  value |-> get_user_info_value(utype, ev, c)]

(***************************************************************************)
(* AutoTagUser.get_tags_from_resource: [isNone, map]; isNone is the None   *)
(* the method returns for a missing tags field, for a tags field that is   *)
(* neither dict nor list, and for a list holding a dict (the value of      *)
(* dict.update).  Nothing in the try block raises on these inputs.         *)
(***************************************************************************)
TagsNone == [isNone |-> TRUE, map |-> EmptyDict]
TagsOf(m) == [isNone |-> FALSE, map |-> m]

RECURSIVE ParseTagList(_, _)
ParseTagList(items, res_tags) ==
    IF items = <<>> THEN TagsOf(res_tags)
    ELSE LET tag == Head(items)
         IN  IF tag.kind = "dict" THEN TagsNone
             ELSE IF tag.kind = "str"
                  THEN LET parts == SplitEq(tag.chars)
                       IN  IF Len(parts) = 2
                           THEN ParseTagList(Tail(items), DictPut(res_tags, parts[1], parts[2]))
                           ELSE ParseTagList(Tail(items), res_tags)
                  ELSE ParseTagList(Tail(items), res_tags)

get_tags_from_resource(resource) ==
    IF "tags" \in DOMAIN resource
    THEN LET tags == resource["tags"]
         IN  IF tags.kind = "dict" THEN TagsOf(tags.map)
             ELSE IF tags.kind = "list" THEN ParseTagList(tags.items, EmptyDict)
             ELSE TagsNone
    ELSE TagsNone

(***************************************************************************)
(* AutoTagUser.process, lines 130-141: the target set.  With update unset  *)
(* or false the loop evaluates `tag not in tags`, which raises TypeError   *)
(* when get_tags_from_resource returned None; nothing is caught, so the    *)
(* invocation ends there.                                                  *)
(***************************************************************************)
\* mutant: `in` for `not in`
IsUntagged_inverted(c, resource) ==
    Get(c, "tag", DEFAULT_TAG) \in DOMAIN get_tags_from_resource(resource).map

IsUntagged(c, resource) ==
    Get(c, "tag", DEFAULT_TAG) \notin DOMAIN get_tags_from_resource(resource).map

SelectUntagged(c, rs) ==
    IF \E i \in 1..Len(rs) : get_tags_from_resource(rs[i]).isNone
    THEN [raised |-> TRUE, list |-> <<>>]
    ELSE [raised |-> FALSE, list |-> SelectSeq(rs, LAMBDA r : IsUntagged(c, r))]

\* mutant: the update option is not read, the batch is always filtered
untagged_resources_no_update(c, rs) == SelectUntagged(c, rs)

untagged_resources(c, rs) ==
    IF ~Get(c, "update", FALSE)
    THEN SelectUntagged(c, rs)
    ELSE [raised |-> FALSE, list |-> rs]

(***************************************************************************)
(* AutoTagUser.process, lines 143-152: new_tags, in insertion order.       *)
(***************************************************************************)
\* mutant: the user name is preferred to the selected value
PrimaryTags_user_first(c, user_info) ==
    IF Truthy(user_info.user) THEN ODictPut(<<>>, c["tag"], user_info.user)
    ELSE IF Truthy(user_info.value) THEN ODictPut(<<>>, c["tag"], user_info.value)
    ELSE <<>>

PrimaryTags(c, user_info) ==
    IF Truthy(user_info.value) THEN ODictPut(<<>>, c["tag"], user_info.value)
    ELSE IF Truthy(user_info.user) THEN ODictPut(<<>>, c["tag"], user_info.user)
    ELSE <<>>

new_tags(c, user_info) ==
    LET principal_id_key == Get(c, "principal_id_tag", None)
    IN  IF Truthy(principal_id_key) /\ Truthy(user_info.id)
        THEN ODictPut(PrimaryTags(c, user_info), principal_id_key, user_info.id)
        ELSE PrimaryTags(c, user_info)

(***************************************************************************)
(* AutoTagUser.set_resource_tags: one tag action per item of tags, each    *)
(* given the whole list.  A call is recorded with the ids of its batch.    *)
(***************************************************************************)
Ids(rs) == [i \in 1..Len(rs) |-> rs[i]["id"]]

\* mutant: one tag action per tag and per resource
set_resource_tags_per_resource(tags, rs) ==
    [n \in 1..(Len(tags) * Len(rs)) |->
        LET i == ((n - 1) \div Len(rs)) + 1
            j == ((n - 1) % Len(rs)) + 1
        IN  [key |-> tags[i].key, value |-> tags[i].value, ids |-> <<rs[j]["id"]>>]]

set_resource_tags(tags, rs) ==
    [i \in 1..Len(tags) |-> [key |-> tags[i].key, value |-> tags[i].value, ids |-> Ids(rs)]]

(***************************************************************************)
(* AutoTagUser.process as a whole: the record of one invocation.           *)
(*   outcome  "none"      returned None (no event, or user type refused)   *)
(*            "TypeError" raised in the target loop                        *)
(*            "tags"      returned new_tags                                *)
(***************************************************************************)
RunRecord(rs, outcome, targets, tags, calls) ==
    [input |-> rs, outcome |-> outcome, targets |-> targets, tags |-> tags, calls |-> calls]

IsNoneEvent(ev) == "user" \notin DOMAIN ev

\* mutant: the principal-id tag is written to the whole batch, the other tag
\* to the untagged resources
process_principal_id_on_all(c, ev, rs) ==
    IF IsNoneEvent(ev) THEN RunRecord(rs, "none", <<>>, <<>>, <<>>)
    ELSE LET user_info == get_tag_value(ev, c)
         IN  IF user_info = NoUserInfo THEN RunRecord(rs, "none", <<>>, <<>>, <<>>)
             ELSE LET untagged == untagged_resources(c, rs)
                      tags == new_tags(c, user_info)
                      calls == set_resource_tags(tags, untagged.list)
                  IN  IF untagged.raised
                      THEN RunRecord(rs, "TypeError", <<>>, <<>>, <<>>)
                      ELSE RunRecord(rs, "tags", Ids(untagged.list), tags,
                               [k \in 1..Len(calls) |->
                                   IF calls[k].key = Get(c, "principal_id_tag", None)
                                   THEN [calls[k] EXCEPT !.ids = Ids(rs)]
                                   ELSE calls[k]])

process(c, ev, rs) ==
    IF IsNoneEvent(ev) THEN RunRecord(rs, "none", <<>>, <<>>, <<>>)
    ELSE LET user_info == get_tag_value(ev, c)
         IN  IF user_info = NoUserInfo THEN RunRecord(rs, "none", <<>>, <<>>, <<>>)
             ELSE LET untagged == untagged_resources(c, rs)
                      tags == new_tags(c, user_info)
                  IN  IF untagged.raised
                      THEN RunRecord(rs, "TypeError", <<>>, <<>>, <<>>)
                      ELSE RunRecord(rs, "tags", Ids(untagged.list), tags,
                                     IF tags # <<>>
                                     THEN set_resource_tags(tags, untagged.list)
                                     ELSE <<>>)

(***************************************************************************)
(* The collaborators of the action.                                        *)
(*   tag action: Tag({'key', 'value'}, manager).process(batch) sets the    *)
(*     tag on every resource of the batch in the provider's store;         *)
(*   resource fetch: hands the policy the records of the same resources    *)
(*     again, their tags normalised to a mapping read from the store.      *)
(***************************************************************************)
TagActionProcess(store, call) ==
    [id \in DOMAIN store |->
        IF \E i \in 1..Len(call.ids) : call.ids[i] = id
        THEN DictPut(store[id], call.key, call.value)
        ELSE store[id]]

RECURSIVE ApplyCalls(_, _)
ApplyCalls(store, calls) ==
    IF calls = <<>> THEN store
    ELSE ApplyCalls(TagActionProcess(store, Head(calls)), Tail(calls))

\* The TagSet a record's tags field stands for (spec section 3).
RECURSIVE NormaliseList(_, _)
NormaliseList(items, acc) ==
    IF items = <<>> THEN acc
    ELSE LET tag == Head(items)
             parts == IF tag.kind = "str" THEN SplitEq(tag.chars) ELSE <<>>
         IN  IF tag.kind = "dict" THEN NormaliseList(Tail(items), tag.map @@ acc)
             ELSE IF Len(parts) = 2
                  THEN NormaliseList(Tail(items), DictPut(acc, parts[1], parts[2]))
                  ELSE NormaliseList(Tail(items), acc)

ProviderTags(resource) ==
    IF "tags" \notin DOMAIN resource THEN EmptyDict
    ELSE IF resource["tags"].kind = "dict" THEN resource["tags"].map
    ELSE IF resource["tags"].kind = "list" THEN NormaliseList(resource["tags"].items, EmptyDict)
    ELSE EmptyDict

Fetched(rs, store) ==
    [i \in 1..Len(rs) |->
        [id |-> rs[i]["id"], tags |-> [kind |-> "dict", map |-> store[rs[i]["id"]]]]]

(***************************************************************************)
(* Inputs.                                                                 *)
(***************************************************************************)
Opt(key, values) == {EmptyDict} \cup {key :> v : v \in values}

Configs ==
    {("tag" :> "Owner") @@ u @@ p @@ v :
        u \in Opt("update", {TRUE}),
        p \in Opt("principal_id_tag", {"Owner", "PrincipalId"}),
        v \in Opt("value", {"userName", "sourceIPAddress", "principalId"})}
    \cup {("tag" :> "Owner") @@ ("user-type" :> {"IAMUser"}) @@ u @@ p @@ v :
        u \in Opt("update", {TRUE}),
        p \in Opt("principal_id_tag", {"PrincipalId"}),
        v \in Opt("value", {"userName"})}

EventUserTypes == {"IAMUser", "AssumedRole", "FederatedUser", "Root"}

\* user records of the documented shape: type, name, optional principal_id
UserRecords(types) ==
    {("type" :> t) @@ ("name" :> n) @@ p :
        t \in types, n \in {"", "alice"}, p \in Opt("principal_id", {"p-1"})}

\* the camel-case fields get_user_info_value reads
CamelFields == ("userName" :> "alice-login") @@ ("principalId" :> "p-2")

EventsOf(users) ==
    {("user" :> u) @@ ip : u \in users, ip \in Opt("source_ip", {"10.0.0.1"})}

NoneEvent == [isNone |-> TRUE]

\* the events get_tag_value is applied to
TagValueEvents ==
    EventsOf(UserRecords(EventUserTypes))
    \cup EventsOf({u @@ CamelFields : u \in UserRecords(EventUserTypes)})

\* the events process is run on
Events ==
    {NoneEvent}
    \cup EventsOf(UserRecords({"IAMUser"}))
    \cup {"user" :> u : u \in UserRecords({"AssumedRole"})}
    \cup {"user" :> (("type" :> "Root") @@ ("name" :> "alice"))}
    \cup {"user" :> (("type" :> "IAMUser") @@ ("name" :> "alice")
                     @@ ("principal_id" :> "p-1") @@ CamelFields)}

Str(atoms) == [kind |-> "str", chars |-> atoms]
DictTags(m) == [kind |-> "dict", map |-> m]
ListTags(items) == [kind |-> "list", items |-> items]

\* the tags field of a resource record; EmptyDict stands for "no tags field"
TagFields ==
    { EmptyDict,
      "tags" :> DictTags(EmptyDict),
      "tags" :> DictTags("Owner" :> "bob"),
      "tags" :> ListTags(<<Str(<<"Env", "=", "dev">>), Str(<<"Owner", "=", "bob">>)>>),
      "tags" :> ListTags(<<Str(<<"Owner", "=", "b", "=", "c">>)>>),
      "tags" :> ListTags(<<DictTags("Owner" :> "bob")>>),
      "tags" :> [kind |-> "null"] }

ResId(i) == <<"r1", "r2", "r3">>[i]
ResIds == {ResId(i) : i \in 1..3}

Batches ==
    UNION {{[i \in 1..n |-> ("id" :> ResId(i)) @@ f[i]] : f \in [1..n -> TagFields]} :
           n \in 0..MaxRes}

(***************************************************************************)
(* The state machine: a policy run hands process the event and the batch;  *)
(* the same event may be delivered again after the batch was fetched anew. *)
(***************************************************************************)
Unset == [unset |-> TRUE]

\* the filters of filters/vpc.py, not part of the policy at hand
SubnetIdle ==
    sf = [data |-> EmptyDict, trace |-> <<>>, results |-> <<>>, pc |-> "idle"]
NetworkLocationIdle ==
    [data |-> EmptyDict, registry |-> {}, net |-> EmptyDict, batch |-> <<>>,
     trace |-> <<>>, evals |-> <<>>, records |-> <<>>, results |-> <<>>,
     error |-> None, pc |-> "idle"]
VpcIdle == nl = NetworkLocationIdle /\ SubnetIdle

\* the filters of resources/functiongraph.py, not part of the policy at hand
FgIdle ==
    fg = [kind |-> None, data |-> EmptyDict, api |-> EmptyDict, input |-> <<>>,
          batch |-> <<>>, task |-> <<>>, outcome |-> [kind |-> "none"], calls |-> <<>>,
          pc |-> "idle"]

\* the filter of resources/coc.py, not part of the policy at hand
CocIdle == coc = [batch |-> <<>>, result |-> [kind |-> "none"], pc |-> "idle"]

\* the actions trim-versions, create-lts-log-transfer and
\* patch_non_compliant_alarm, not part of the policy at hand
ActionsIdle == tv = [pc |-> "idle"] /\ elb = [pc |-> "idle"] /\ alarm = [pc |-> "idle"]

InitCloud(rs) ==
    [id \in ResIds |->
        IF \E i \in 1..Len(rs) : rs[i]["id"] = id
        THEN ProviderTags(rs[CHOOSE i \in 1..Len(rs) : rs[i]["id"] = id])
        ELSE EmptyDict]

Init ==
    /\ cfg \in Configs
    /\ event \in Events
    /\ resources \in Batches
    /\ cloud = InitCloud(resources)
    /\ runs = <<>>
    /\ tag_value = Unset
    /\ pc = "ready"
    /\ VpcIdle /\ FgIdle /\ CocIdle /\ ActionsIdle

Process ==
    /\ pc \in {"ready", "fetched"}
    /\ LET run == process(cfg, event, resources)
       IN  /\ runs' = Append(runs, run)
           /\ cloud' = ApplyCalls(cloud, run.calls)
    /\ tag_value' = IF IsNoneEvent(event) THEN tag_value ELSE get_tag_value(event, cfg)
    /\ pc' = IF pc = "ready" THEN "ran" ELSE "reran"
    /\ UNCHANGED <<cfg, event, resources>>
    /\ UNCHANGED <<nl_vars, sf_vars, fg_vars, coc_vars, action_vars>>

Refetch ==
    /\ pc = "ran"
    /\ resources' = Fetched(resources, cloud)
    /\ pc' = "fetched"
    /\ UNCHANGED <<cfg, event, cloud, runs, tag_value>>
    /\ UNCHANGED <<nl_vars, sf_vars, fg_vars, coc_vars, action_vars>>

Next == Process \/ Refetch

Spec == Init /\ [][Next]_vars

(***************************************************************************)
(* get_tag_value on its own, over every event shape.                       *)
(***************************************************************************)
InitTagValue ==
    /\ cfg \in Configs
    /\ event \in TagValueEvents
    /\ resources = <<>>
    /\ cloud = InitCloud(resources)
    /\ runs = <<>>
    /\ tag_value = Unset
    /\ pc = "ready"
    /\ VpcIdle /\ FgIdle /\ CocIdle /\ ActionsIdle

GetTagValue ==
    /\ pc = "ready"
    /\ tag_value' = get_tag_value(event, cfg)
    /\ pc' = "ran"
    /\ UNCHANGED <<cfg, event, resources, cloud, runs>>
    /\ UNCHANGED <<nl_vars, sf_vars, fg_vars, coc_vars, action_vars>>

SpecTagValue == InitTagValue /\ [][GetTagValue]_vars

(***************************************************************************)
(* Vocabulary of the properties.                                           *)
(***************************************************************************)
UpdateOn == Get(cfg, "update", FALSE)
TagKey == cfg["tag"]
PidKey == Get(cfg, "principal_id_tag", None)
RunIdx == 1..Len(runs)
CallIdx(n) == 1..Len(runs[n].calls)
InputIdx(n) == 1..Len(runs[n].input)
SeqSet(q) == {q[i] : i \in 1..Len(q)}
Accepted == ~IsNoneEvent(event) /\ event["user"]["type"] \in Get(cfg, "user-type", DefaultUserTypes)
\* the resource's own tags hold the key
CarriesKey(resource, key) == key \in DOMAIN ProviderTags(resource)
\* the store as it was when run n started, and as run n left it
StoreBefore(n) == IF n = 1 THEN InitCloud(runs[1].input)
                  ELSE ApplyCalls(InitCloud(runs[1].input), runs[1].calls)
StoreAfter(n) == ApplyCalls(StoreBefore(n), runs[n].calls)

\* C1: with update unset or false no tag-action call of process includes a
\* resource whose own tags hold the configured key, and the store keeps such a
\* resource's tags as they were; with update true every call of process, the
\* one for the configured key included, is made on every resource handed in,
\* and that call is made whenever the event yields a user name or a value.
C1_UpdateDecidesTargets ==
    \A n \in RunIdx :
        /\ ~UpdateOn =>
              \A i \in InputIdx(n) :
                  CarriesKey(runs[n].input[i], TagKey) =>
                      /\ \A k \in CallIdx(n) :
                             runs[n].input[i]["id"] \notin SeqSet(runs[n].calls[k].ids)
                      /\ StoreAfter(n)[runs[n].input[i]["id"]]
                             = StoreBefore(n)[runs[n].input[i]["id"]]
        /\ UpdateOn =>
              /\ \A k \in CallIdx(n) : runs[n].calls[k].ids = Ids(runs[n].input)
              /\ (Accepted /\ (Truthy(tag_value.user) \/ Truthy(tag_value.value))) =>
                     \E k \in CallIdx(n) : runs[n].calls[k].key = TagKey

\* C1 witness: an update-false run wrote the key to one resource and left out
\* another that already carried it.
C1_Witness ==
    /\ ~UpdateOn
    /\ Len(runs) = 1
    /\ \E k \in CallIdx(1) :
          /\ runs[1].calls[k].key = TagKey
          /\ runs[1].calls[k].ids # <<>>
          /\ \E i \in InputIdx(1) :
                /\ CarriesKey(runs[1].input[i], TagKey)
                /\ runs[1].input[i]["id"] \notin SeqSet(runs[1].calls[k].ids)

\* C2: an event whose user type is not in the configured user-type list makes
\* get_tag_value return None and process a no-op: no tag-action call, no
\* change of the store, nothing returned, whatever the batch and the options.
C2_RefusedTypeIsNoOp ==
    (~IsNoneEvent(event) /\ ~Accepted) =>
        /\ \A n \in RunIdx :
              /\ runs[n].outcome = "none"
              /\ runs[n].calls = <<>>
              /\ runs[n].tags = <<>>
        /\ runs # <<>> => (tag_value = NoUserInfo /\ cloud = InitCloud(runs[1].input))

\* C2 witness: process ran on a non-empty batch with an event of a type that
\* the schema allows but the configured list leaves out.
C2_Witness ==
    /\ ~IsNoneEvent(event) /\ ~Accepted
    /\ event["user"]["type"] = "AssumedRole"
    /\ Len(runs) = 1
    /\ Len(runs[1].input) = 2
    /\ "principal_id_tag" \in DOMAIN cfg
    /\ "principal_id" \in DOMAIN event["user"]

\* the value process puts under the configured key when no other tag of the
\* write shares that key: the selected value, else the user name, else none
PrimaryValue ==
    IF Truthy(tag_value.value) THEN tag_value.value
    ELSE IF Truthy(tag_value.user) THEN tag_value.user
    ELSE None
\* principal_id_tag names the configured key itself and the event has an id
PidOverridesTag == PidKey = TagKey /\ Truthy(tag_value.id)
\* the scenario of the claim: IAMUser alice, no value option, update false
AliceScenario ==
    /\ Accepted
    /\ event["user"]["type"] = "IAMUser"
    /\ event["user"]["name"] = "alice"
    /\ "value" \notin DOMAIN cfg
    /\ TagKey = "Owner"
    /\ ~UpdateOn

\* C3 as stated: every write for the configured key carries the selected
\* value, else the user name; with both empty no write for the key is issued;
\* the alice scenario writes Owner = alice to each target resource.
C3_AsStated ==
    \A n \in RunIdx :
        runs[n].outcome = "tags" =>
            /\ \A k \in CallIdx(n) :
                   runs[n].calls[k].key = TagKey => runs[n].calls[k].value = PrimaryValue
            /\ PrimaryValue = None =>
                   \A k \in CallIdx(n) : runs[n].calls[k].key # TagKey
            /\ AliceScenario =>
                   \A t \in SeqSet(runs[n].targets) :
                       \E k \in CallIdx(n) :
                           /\ runs[n].calls[k].key = "Owner"
                           /\ runs[n].calls[k].value = "alice"
                           /\ t \in SeqSet(runs[n].calls[k].ids)

\* C3 amended: as stated, except when principal_id_tag names the configured
\* key itself and the event has a principal id: then the one write for that
\* key carries the principal id, also when value and user name are empty.
C3_TagValuePrecedence ==
    \A n \in RunIdx :
        runs[n].outcome = "tags" =>
            /\ \A k \in CallIdx(n) :
                   runs[n].calls[k].key = TagKey =>
                       runs[n].calls[k].value =
                           IF PidOverridesTag THEN tag_value.id ELSE PrimaryValue
            /\ (PrimaryValue = None /\ ~PidOverridesTag) =>
                   \A k \in CallIdx(n) : runs[n].calls[k].key # TagKey
            /\ (PrimaryValue # None \/ PidOverridesTag) =>
                   \E k \in CallIdx(n) : runs[n].calls[k].key = TagKey
            /\ (AliceScenario /\ ~PidOverridesTag) =>
                   \A t \in SeqSet(runs[n].targets) :
                       \E k \in CallIdx(n) :
                           /\ runs[n].calls[k].key = "Owner"
                           /\ runs[n].calls[k].value = "alice"
                           /\ t \in SeqSet(runs[n].calls[k].ids)

\* C3 witness: value and user name were both non-empty and differ, and the
\* write for the key went to a target resource.
C3_Witness ==
    /\ Len(runs) = 1
    /\ runs[1].outcome = "tags"
    /\ Truthy(tag_value.value) /\ Truthy(tag_value.user)
    /\ tag_value.value # tag_value.user
    /\ ~PidOverridesTag
    /\ \E k \in CallIdx(1) :
          /\ runs[1].calls[k].key = TagKey
          /\ runs[1].calls[k].value = tag_value.value
          /\ runs[1].calls[k].ids # <<>>

\* an event of the documented shape: user has type, name, optional principal_id
DocumentedShape(ev) == DOMAIN ev["user"] \subseteq {"type", "name", "principal_id"}

\* C4 as stated: for an event of the documented shape get_tag_value selects
\* the user's name under userName, the event's source ip under
\* sourceIPAddress, the user's principal_id under principalId, None when the
\* option is unset; the user component is the user's name.
C4_AsStated ==
    (pc = "ran" /\ DocumentedShape(event) /\ tag_value # NoUserInfo) =>
        /\ tag_value.user = event["user"]["name"]
        /\ tag_value.value =
              LET vtype == Get(cfg, "value", None)
              IN  IF vtype = "userName" THEN event["user"]["name"]
                  ELSE IF vtype = "sourceIPAddress" THEN Get(event, "source_ip", "")
                  ELSE IF vtype = "principalId" THEN Get(event["user"], "principal_id", "")
                  ELSE None

\* C5 as stated: with update false the target set is exactly the resources
\* whose tags do not hold the key, for tags given as a mapping, as a list of
\* key=value strings or as a list of single-entry mappings, and a resource
\* without a tags field is a target.
C5_AsStated ==
    \A n \in RunIdx :
        (Accepted /\ ~UpdateOn) =>
            /\ runs[n].outcome = "tags"
            /\ \A i \in InputIdx(n) :
                   runs[n].input[i]["id"] \in SeqSet(runs[n].targets)
                       <=> ~CarriesKey(runs[n].input[i], TagKey)

\* a tags field that is neither a mapping nor a list, or a list with a string
\* that is not key=value
Malformed(resource) ==
    /\ "tags" \in DOMAIN resource
    /\ \/ resource["tags"].kind \notin {"dict", "list"}
       \/ /\ resource["tags"].kind = "list"
          /\ \E i \in 1..Len(resource["tags"].items) :
                /\ resource["tags"].items[i].kind = "str"
                /\ Len(SplitEq(resource["tags"].items[i].chars)) # 2
\* a tags field process reads without trouble: a mapping or a list of strings
Readable(resource) ==
    /\ "tags" \in DOMAIN resource
    /\ \/ resource["tags"].kind = "dict"
       \/ /\ resource["tags"].kind = "list"
          /\ \A i \in 1..Len(resource["tags"].items) :
                resource["tags"].items[i].kind = "str"

\* C6 as stated: a malformed tag collection never makes process fail; with
\* update false the resource counts as untagged and is a target, and the rest
\* of the batch is still processed.
C6_AsStated ==
    \A n \in RunIdx :
        (/\ Accepted /\ ~UpdateOn
         /\ \A i \in InputIdx(n) : Malformed(runs[n].input[i]) \/ Readable(runs[n].input[i])) =>
            /\ runs[n].outcome = "tags"
            /\ \A i \in InputIdx(n) :
                   Malformed(runs[n].input[i]) =>
                       runs[n].input[i]["id"] \in SeqSet(runs[n].targets)

\* the event has a principal id and principal_id_tag is configured
PidWanted == Truthy(PidKey) /\ Truthy(tag_value.id)

\* C7: when process comes to write (it returned its tag set) with
\* principal_id_tag configured and a non-empty principal id, there is a write
\* for that key, it carries the principal id and it is made on exactly the
\* batch every other write of the invocation is made on, the target set; when
\* principal_id_tag is unset or the principal id is empty, the only write is
\* the one for the configured key with the selected value or user name.
C7_PrincipalIdSameTargets ==
    \A n \in RunIdx :
        runs[n].outcome = "tags" =>
            /\ PidWanted =>
                   \E k \in CallIdx(n) :
                       /\ runs[n].calls[k].key = PidKey
                       /\ runs[n].calls[k].value = tag_value.id
                       /\ runs[n].calls[k].ids = runs[n].targets
                       /\ \A j \in CallIdx(n) : runs[n].calls[j].ids = runs[n].calls[k].ids
            /\ ~PidWanted =>
                   \A k \in CallIdx(n) :
                       /\ runs[n].calls[k].key = TagKey
                       /\ runs[n].calls[k].value = PrimaryValue
                       /\ Len(runs[n].calls) = 1

\* C7 witness: two writes, one per key, on a target set that update false cut
\* down to a part of the batch.
C7_Witness ==
    /\ ~UpdateOn
    /\ Len(runs) = 1
    /\ runs[1].outcome = "tags"
    /\ PidWanted /\ PidKey # TagKey
    /\ Len(runs[1].calls) = 2
    /\ runs[1].targets # <<>>
    /\ runs[1].targets # Ids(runs[1].input)

\* the ids of the resources of a batch whose tags do not hold the key
IdsWithoutKey(rs, key) == Ids(SelectSeq(rs, LAMBDA r : ~CarriesKey(r, key)))

\* C8 as stated: with principal_id_tag configured and update false the
\* principal-id write is made on the full batch handed to process.
C8_AsStated ==
    \A n \in RunIdx :
        ~UpdateOn =>
            \A k \in CallIdx(n) :
                (PidKey # TagKey /\ runs[n].calls[k].key = PidKey) =>
                    runs[n].calls[k].ids = Ids(runs[n].input)

\* C8 amended: with principal_id_tag configured and update false the
\* principal-id write is made on the update-filtered batch, the resources
\* whose tags do not hold the configured key, and so reaches no resource that
\* carries that key.
C8_PrincipalIdOnUntagged ==
    \A n \in RunIdx :
        ~UpdateOn =>
            \A k \in CallIdx(n) :
                runs[n].calls[k].key = PidKey =>
                    /\ runs[n].calls[k].ids = IdsWithoutKey(runs[n].input, TagKey)
                    /\ \A i \in InputIdx(n) :
                           CarriesKey(runs[n].input[i], TagKey) =>
                               runs[n].input[i]["id"] \notin SeqSet(runs[n].calls[k].ids)

\* C8 witness: the principal-id write left out a resource that carries the
\* configured key and reached one that does not.
C8_Witness ==
    /\ ~UpdateOn
    /\ PidKey # TagKey
    /\ Len(runs) = 1
    /\ \E k \in CallIdx(1) :
          /\ runs[1].calls[k].key = PidKey
          /\ runs[1].calls[k].ids # <<>>
          /\ \E i \in InputIdx(1) :
                /\ CarriesKey(runs[1].input[i], TagKey)
                /\ runs[1].input[i]["id"] \notin SeqSet(runs[1].calls[k].ids)

\* C9: an invocation that returns its tag set issued exactly one tag-action
\* call per key of that set, in its order and with its value, no two calls for
\* one key (a single call when principal_id_tag equals tag), each call on the
\* whole target set; any other invocation issued none.
C9_OneCallPerKey ==
    \A n \in RunIdx :
        /\ runs[n].outcome # "tags" => runs[n].calls = <<>>
        /\ runs[n].outcome = "tags" =>
              /\ Len(runs[n].calls) = Len(runs[n].tags)
              /\ \A k \in CallIdx(n) :
                     /\ runs[n].calls[k].key = runs[n].tags[k].key
                     /\ runs[n].calls[k].value = runs[n].tags[k].value
                     /\ runs[n].calls[k].ids = runs[n].targets
              /\ \A j, k \in CallIdx(n) :
                     runs[n].calls[j].key = runs[n].calls[k].key => j = k
              /\ PidKey = TagKey => Len(runs[n].calls) <= 1

\* C9 witness: two keys written, each in one call on a two-resource target set.
C9_Witness ==
    /\ Len(runs) = 1
    /\ runs[1].outcome = "tags"
    /\ Len(runs[1].calls) = 2
    /\ Len(runs[1].targets) = 2

\* C10: with update true, process run again on the same event and the same
\* resources fetched anew issues the same calls (key, value, batch) as the
\* first time, and leaves every resource's tags as the first run left them.
C10_Idempotent ==
    (UpdateOn /\ Len(runs) = 2) =>
        /\ runs[2].outcome = runs[1].outcome
        /\ runs[2].calls = runs[1].calls
        /\ cloud = StoreAfter(1)

\* C10 witness: the second run rewrote a tag that the batch already carried
\* with another value before the first run.
C10_Witness ==
    /\ UpdateOn
    /\ Len(runs) = 2
    /\ \E k \in CallIdx(2), i \in InputIdx(1) :
          /\ runs[2].calls[k].key = TagKey
          /\ runs[1].input[i]["id"] \in SeqSet(runs[2].calls[k].ids)
          /\ CarriesKey(runs[1].input[i], TagKey)
          /\ ProviderTags(runs[1].input[i])[TagKey] # runs[2].calls[k].value
          /\ cloud[runs[1].input[i]["id"]][TagKey] = runs[2].calls[k].value

(***************************************************************************)
(* Part 2: filters/vpc.py, the NetworkLocation and SubnetFilter filters.   *)
(*                                                                         *)
(*   - a resource, a security group and a subnet are dicts with an "id";   *)
(*     a resource lists the ids of its attachments under "sg_ids" and      *)
(*     "subnet_ids";                                                       *)
(*   - a Python list is a sequence, a Python set a set;                    *)
(*   - process_resource and process_match_in return r or None: here a      *)
(*     record with the flag "matched", the resource "r" as it is left and  *)
(*     the local evaluation list.                                          *)
(***************************************************************************)

\* ValueFilter.get_resource_value(k, r): the attribute, None when r has none
get_resource_value(k, r) == Get(r, k, None)

\* RelatedResourceFilter.get_related_ids([r]) of the two related filters
get_related_ids(kind, r) == IF kind = "security-group" THEN r["sg_ids"] ELSE r["subnet_ids"]

\* RelatedResourceFilter.get_related(resources): id -> related resource, for
\* the ids the batch refers to that the provider knows
get_related(kind, provider, rs) ==
    LET wanted == UNION {SeqSet(get_related_ids(kind, rs[i])) : i \in 1..Len(rs)}
    IN  [id \in wanted \cap DOMAIN provider[kind] |-> provider[kind][id]]

\* the filter options read at lines 284-288
DefaultCompare == {"subnet", "security-group", "resource"}
DefaultMaxCardinality == 1
DefaultMatch == "not-equal"
Compare(data) == Get(data, "compare", DefaultCompare)
MaxCardinality(data) == Get(data, "max-cardinality", DefaultMaxCardinality)
MatchMode(data) == Get(data, "match", DefaultMatch)
MissingOk(data) == Get(data, "missing-ok", FALSE)

\* mutant: an entry ignores a resource only when all its pairs match
Ignored_all_pairs(data, r) ==
    LET ignores == Get(data, "ignore", <<>>)
    IN  \E n \in 1..Len(ignores) : \A k \in DOMAIN ignores[n] :
            get_resource_value(k, r) = ignores[n][k]

\* one (attribute key, value) pair of one ignore entry matches the resource
Ignored(data, r) ==
    LET ignores == Get(data, "ignore", <<>>)
    IN  \E n \in 1..Len(ignores) : \E k \in DOMAIN ignores[n] :
            get_resource_value(k, r) = ignores[n][k]

filter_ignored(data, rs) == SelectSeq(rs, LAMBDA r : ~Ignored(data, r))

\* {related[id]: get_resource_value(key, related) for related in rs}
ValuesById(key, rs) ==
    [id \in {rs[i]["id"] : i \in 1..Len(rs)} |->
        LET last == CHOOSE i \in 1..Len(rs) :
                        /\ rs[i]["id"] = id
                        /\ \A j \in 1..Len(rs) : rs[j]["id"] = id => j <= i
        IN  get_resource_value(key, rs[last])]

DictValues(d) == {d[k] : k \in DOMAIN d}

\* set(filter(None, values.values()))
Space(values) == {v \in DictValues(values) : Truthy(v)}

Entry(reason) == "reason" :> reason
When(cond, entry) == IF cond THEN <<entry>> ELSE <<>>

\* mutant: an absent value is reported whatever missing-ok says
KindEntries_absent_always(data, name, field, values) ==
       When(None \in DictValues(values),
            Entry(name \o "LocationAbsent") @@ (field :> values))
    \o When(Cardinality(Space(values)) > MaxCardinality(data),
            Entry(name \o "LocationCardinality") @@ (field :> values))

\* lines 333-342 and 348-358: the entries of one attachment kind
KindEntries(data, name, field, values) ==
       When(~MissingOk(data) /\ None \in DictValues(values),
            Entry(name \o "LocationAbsent") @@ (field :> values))
    \o When(Cardinality(Space(values)) > MaxCardinality(data),
            Entry(name \o "LocationCardinality") @@ (field :> values))

\* mutant: the SecurityGroupMismatch entry lists every attached security group
ResourceEntries_all_groups(data, r_value, resource_sgs, resource_subnets, sg_values, subnet_values) ==
    LET compare == Compare(data)
        sg_space == Space(sg_values)
        subnet_space == Space(subnet_values)
        mismatched_sgs == [id \in {i \in DOMAIN sg_values : sg_values[i] # r_value} |-> sg_values[id]]
    IN     (IF ~MissingOk(data) /\ r_value = None
            THEN <<Entry("ResourceLocationAbsent") @@ ("resource" :> r_value)>>
            ELSE IF "security-group" \in compare /\ resource_sgs # <<>> /\ r_value \notin sg_space
            THEN <<Entry("ResourceLocationMismatch") @@ ("resource" :> r_value)
                     @@ ("security-groups" :> sg_values)>>
            ELSE IF "subnet" \in compare /\ resource_subnets # <<>> /\ r_value \notin subnet_space
            THEN <<Entry("ResourceLocationMismatch") @@ ("resource" :> r_value)
                     @@ ("subnet" :> subnet_values)>>
            ELSE <<>>)
        \o When("security-group" \in compare /\ resource_sgs # <<>> /\ DOMAIN mismatched_sgs # {},
                Entry("SecurityGroupMismatch") @@ ("resource" :> r_value)
                    @@ ("security-groups" :> sg_values))

\* lines 368-392: the entries about the resource's own value
ResourceEntries(data, r_value, resource_sgs, resource_subnets, sg_values, subnet_values) ==
    LET compare == Compare(data)
        sg_space == Space(sg_values)
        subnet_space == Space(subnet_values)
        mismatched_sgs == [id \in {i \in DOMAIN sg_values : sg_values[i] # r_value} |-> sg_values[id]]
    IN     (IF ~MissingOk(data) /\ r_value = None
            THEN <<Entry("ResourceLocationAbsent") @@ ("resource" :> r_value)>>
            ELSE IF "security-group" \in compare /\ resource_sgs # <<>> /\ r_value \notin sg_space
            THEN <<Entry("ResourceLocationMismatch") @@ ("resource" :> r_value)
                     @@ ("security-groups" :> sg_values)>>
            ELSE IF "subnet" \in compare /\ resource_subnets # <<>> /\ r_value \notin subnet_space
            THEN <<Entry("ResourceLocationMismatch") @@ ("resource" :> r_value)
                     @@ ("subnet" :> subnet_values)>>
            ELSE <<>>)
        \o When("security-group" \in compare /\ resource_sgs # <<>> /\ DOMAIN mismatched_sgs # {},
                Entry("SecurityGroupMismatch") @@ ("resource" :> r_value)
                    @@ ("security-groups" :> mismatched_sgs))

\* lines 328-392: the evaluation list of one resource
Evaluation(data, r, resource_sgs, resource_subnets, key) ==
    LET compare == Compare(data)
        subnet_values == ValuesById(key, resource_subnets)
        sg_values == ValuesById(key, resource_sgs)
        subnet_space == IF "subnet" \in compare THEN Space(subnet_values) ELSE {}
        sg_space == IF "security-group" \in compare THEN Space(sg_values) ELSE {}
    IN     (IF "subnet" \in compare
            THEN KindEntries(data, "Subnet", "subnets", subnet_values) ELSE <<>>)
        \o (IF "security-group" \in compare
            THEN KindEntries(data, "SecurityGroup", "security-groups", sg_values) ELSE <<>>)
        \o When("subnet" \in compare /\ "security-group" \in compare /\ sg_space # subnet_space,
                Entry("LocationMismatch") @@ ("subnets" :> subnet_values)
                    @@ ("security-groups" :> sg_values))
        \o (IF "resource" \in compare
            THEN ResourceEntries(data, get_resource_value(key, r), resource_sgs,
                                 resource_subnets, sg_values, subnet_values)
            ELSE <<>>)

AnnotationKey == "c7n:NetworkLocation"

process_match_in(data, r, resource_sgs, resource_subnets, key) ==
    LET compare == Compare(data)
        network_location_vals == Get(data, "value", {})
        subnet_values == ValuesById(key, resource_subnets)
        sg_values == ValuesById(key, resource_sgs)
        r_value == get_resource_value(key, r)
        Rejects(values) ==
            \/ ~MissingOk(data) /\ None \in DictValues(values)
            \/ ~(Space(values) \subseteq network_location_vals)
    IN  [matched |->
            /\ "subnet" \in compare => ~Rejects(subnet_values)
            /\ "security-group" \in compare => ~Rejects(sg_values)
            /\ "resource" \in compare =>
                  /\ ~(~MissingOk(data) /\ r_value = None)
                  /\ r_value \in network_location_vals,
         r |-> r,
         evaluation |-> <<>>]

\* mutant: match equal returns the resource whatever the evaluation list holds
process_resource_equal_always(data, r, resource_sgs, resource_subnets, key) ==
    IF MatchMode(data) = "in"
    THEN process_match_in(data, r, resource_sgs, resource_subnets, key)
    ELSE LET evaluation == Evaluation(data, r, resource_sgs, resource_subnets, key)
         IN  IF evaluation # <<>> /\ MatchMode(data) = "not-equal"
             THEN [matched |-> TRUE, r |-> DictPut(r, AnnotationKey, evaluation),
                   evaluation |-> evaluation]
             ELSE [matched |-> MatchMode(data) = "equal", r |-> r,
                   evaluation |-> evaluation]

\* mutant: a non-empty evaluation list is written on the record in every mode
process_resource_annotate_always(data, r, resource_sgs, resource_subnets, key) ==
    IF MatchMode(data) = "in"
    THEN process_match_in(data, r, resource_sgs, resource_subnets, key)
    ELSE LET evaluation == Evaluation(data, r, resource_sgs, resource_subnets, key)
         IN  IF evaluation # <<>>
             THEN [matched |-> MatchMode(data) = "not-equal",
                   r |-> DictPut(r, AnnotationKey, evaluation),
                   evaluation |-> evaluation]
             ELSE [matched |-> evaluation = <<>> /\ MatchMode(data) = "equal", r |-> r,
                   evaluation |-> evaluation]

process_resource(data, r, resource_sgs, resource_subnets, key) ==
    IF MatchMode(data) = "in"
    THEN process_match_in(data, r, resource_sgs, resource_subnets, key)
    ELSE LET evaluation == Evaluation(data, r, resource_sgs, resource_subnets, key)
         IN  IF evaluation # <<>> /\ MatchMode(data) = "not-equal"
             THEN [matched |-> TRUE, r |-> DictPut(r, AnnotationKey, evaluation),
                   evaluation |-> evaluation]
             ELSE [matched |-> evaluation = <<>> /\ MatchMode(data) = "equal", r |-> r,
                   evaluation |-> evaluation]

Call(name, on) == [call |-> name, on |-> on]

\* mutant: the related resources are retrieved anew for every resource
ProcessCalls_per_resource(rs) ==
    [k \in 1..(3 * Len(rs)) |->
        IF k % 3 = 1 THEN Call("get_related", "security-group")
        ELSE IF k % 3 = 2 THEN Call("get_related", "subnet")
        ELSE Call("process_resource", rs[k \div 3]["id"])]

\* the collaborator calls and evaluations of process, in order: lines 274 and
\* 277, then line 297 once per resource
ProcessCalls(rs) ==
       <<Call("get_related", "security-group"), Call("get_related", "subnet")>>
    \o [i \in 1..Len(rs) |-> Call("process_resource", rs[i]["id"])]

\* [related[sid] for sid in get_related_ids([r]) if sid in related]
RelatedOf(kind, related, r) ==
    LET ids == SelectSeq(get_related_ids(kind, r), LAMBDA sid : sid \in DOMAIN related)
    IN  [i \in 1..Len(ids) |-> related[ids[i]]]

NetworkLocation_process(data, provider, rs) ==
    LET related_sg == get_related("security-group", provider, rs)
        related_subnet == get_related("subnet", provider, rs)
        key == Get(data, "key", None)
        resource_sgs(i) == filter_ignored(data, RelatedOf("security-group", related_sg, rs[i]))
        resource_subnets(i) == filter_ignored(data, RelatedOf("subnet", related_subnet, rs[i]))
        found == [i \in 1..Len(rs) |->
                     process_resource(data, rs[i], resource_sgs(i), resource_subnets(i), key)]
        kept == SelectSeq(found, LAMBDA f : f.matched)
    IN  [results |-> [k \in 1..Len(kept) |-> kept[k].r],
         evals |-> [i \in 1..Len(rs) |-> found[i].evaluation],
         records |-> [i \in 1..Len(rs) |-> found[i].r],
         trace |-> ProcessCalls(rs)]

\* the policy run: NetworkLocation.process on the batch of a validated policy
NLProcess ==
    /\ nl.pc = "valid"
    /\ LET run == NetworkLocation_process(nl.data, nl.net, nl.batch)
       IN  nl' = [nl EXCEPT !.results = run.results,
                            !.evals = run.evals,
                            !.records = run.records,
                            !.trace = nl.trace \o run.trace,
                            !.pc = "done"]
    /\ UNCHANGED <<tag_vars, sf_vars, fg_vars, coc_vars, action_vars>>

(***************************************************************************)
(* Inputs of NetworkLocation: the compared attribute is absent, empty or   *)
(* one of two locations.  The attachments of a resource are listed in a    *)
(* fixed order of their values: the ids only name them.                    *)
(***************************************************************************)
MaxSg == 2      \* most security groups of one resource
MaxSubnet == 1  \* most subnets of one resource

LocKey == "tag:Location"
LocOrder == <<None, "", "dev", "prod">>
Locs == SeqSet(LocOrder)
AttId(kind, i) ==
    IF kind = "security-group" THEN <<"sg-1", "sg-2", "sg-3", "sg-4">>[i]
    ELSE <<"subnet-1", "subnet-2", "subnet-3", "subnet-4">>[i]

WithAttr(d, k, v) == IF v = None THEN d ELSE d @@ (k :> v)
Ascending(n, m) == {f \in [1..n -> 1..m] : \A i \in 1..(n - 1) : f[i] <= f[i + 1]}

\* the attachment lists of one kind, their attributes drawn from attrs
Attachments(kind, attrs) ==
    UNION {{[i \in 1..n |-> ("id" :> AttId(kind, i)) @@ attrs[f[i]]] :
                f \in Ascending(n, Len(attrs))} :
           n \in 0..(IF kind = "security-group" THEN MaxSg ELSE MaxSubnet)}
LocAttrs == [j \in 1..Len(LocOrder) |-> WithAttr(EmptyDict, LocKey, LocOrder[j])]

IdsOf(rs) == [i \in 1..Len(rs) |-> rs[i]["id"]]
ById(rs) == [id \in SeqSet(IdsOf(rs)) |-> rs[CHOOSE i \in 1..Len(rs) : rs[i]["id"] = id]]
ProviderOf(sgs, subnets) ==
    ("security-group" :> ById(sgs)) @@ ("subnet" :> ById(subnets)) @@ ("route-table" :> <<>>)
AttachedResource(id, loc, sgs, subnets) ==
    WithAttr(("id" :> id) @@ ("sg_ids" :> IdsOf(sgs)) @@ ("subnet_ids" :> IdsOf(subnets)),
             LocKey, loc)

RequiredFilters == {"subnet", "security-group", "value"}

NLConfigs ==
    {("key" :> LocKey) @@ c @@ m @@ mo @@ mc :
        c \in Opt("compare", (SUBSET DefaultCompare) \ {DefaultCompare}),
        m \in Opt("match", {"equal"}),
        mo \in Opt("missing-ok", {TRUE}),
        mc \in Opt("max-cardinality", {0})}

\* a validated policy and one resource with its attachments
InitOneResource(configs, attrs, locs) ==
    /\ \E data \in configs, sgs \in Attachments("security-group", attrs),
          subnets \in Attachments("subnet", attrs), loc \in locs :
          nl = [NetworkLocationIdle EXCEPT
                   !.data = data,
                   !.registry = RequiredFilters,
                   !.net = ProviderOf(sgs, subnets),
                   !.batch = <<AttachedResource("r1", loc, sgs, subnets)>>,
                   !.pc = "valid"]
    /\ SubnetIdle

TagIdle ==
    /\ cfg = EmptyDict
    /\ event = EmptyDict
    /\ resources = <<>>
    /\ cloud = InitCloud(resources)
    /\ runs = <<>>
    /\ tag_value = Unset
    /\ pc = "idle"

InitNL == TagIdle /\ FgIdle /\ CocIdle /\ ActionsIdle /\ InitOneResource(NLConfigs, LocAttrs, Locs)

SpecNL == InitNL /\ [][NLProcess]_vars

(***************************************************************************)
(* Claims about NetworkLocation.                                           *)
(***************************************************************************)
NLDone == nl.pc = "done"
NLIdx == 1..Len(nl.batch)
ReturnedIds(results) == SeqSet(IdsOf(results))
NLMatched(i) == nl.batch[i]["id"] \in ReturnedIds(nl.results)
OtherMatch(data) ==
    DictPut(data, "match", IF MatchMode(data) = "equal" THEN "not-equal" ELSE "equal")
Reasons(evaluation) == {evaluation[n]["reason"] : n \in 1..Len(evaluation)}
SgsOf(i) == RelatedOf("security-group", nl.net["security-group"], nl.batch[i])
SubnetsOf(i) == RelatedOf("subnet", nl.net["subnet"], nl.batch[i])

\* C11: outside match "in", process returns the resource under exactly one of
\* match equal and match not-equal: under not-equal exactly when its
\* evaluation list is non-empty, under equal exactly when it is empty.
C11_ExactlyOneMatch ==
    (NLDone /\ MatchMode(nl.data) # "in") =>
        \A i \in NLIdx :
            /\ NLMatched(i) <=> IF MatchMode(nl.data) = "not-equal"
                                THEN nl.evals[i] # <<>> ELSE nl.evals[i] = <<>>
            /\ NLMatched(i) <=>
                  nl.batch[i]["id"] \notin
                      ReturnedIds(NetworkLocation_process(OtherMatch(nl.data), nl.net, nl.batch).results)

\* C11 witness: a resource with attachments returned under not-equal with a
\* non-empty evaluation list.
C11_Witness ==
    /\ NLDone
    /\ MatchMode(nl.data) = "not-equal"
    /\ \E i \in NLIdx : NLMatched(i) /\ nl.evals[i] # <<>> /\ SgsOf(i) # <<>>

KeptOf(kind, i) == filter_ignored(nl.data, RelatedOf(kind, nl.net[kind], nl.batch[i]))
ValuesOf(kind, i) ==
    {get_resource_value(nl.data["key"], KeptOf(kind, i)[k]) : k \in 1..Len(KeptOf(kind, i))}
CountOf(evaluation, reason) ==
    Cardinality({n \in 1..Len(evaluation) : evaluation[n]["reason"] = reason})
CardinalityReason(kind) ==
    IF kind = "subnet" THEN "SubnetLocationCardinality" ELSE "SecurityGroupLocationCardinality"
Kinds == {"subnet", "security-group"}
Evaluated == NLDone /\ MatchMode(nl.data) # "in"

\* C12 as stated: for subnet and security-group in compare, the evaluation
\* list holds no ...LocationCardinality entry of that kind when the number of
\* distinct non-null values of the attachments is at most max-cardinality, and
\* exactly one when it is larger.
C12_AsStated ==
    Evaluated =>
        \A i \in NLIdx : \A kind \in Kinds \cap Compare(nl.data) :
            CountOf(nl.evals[i], CardinalityReason(kind)) =
                IF Cardinality(ValuesOf(kind, i) \ {None}) > MaxCardinality(nl.data)
                THEN 1 ELSE 0

OwnValue(i) == get_resource_value(nl.data["key"], nl.batch[i])

\* C13 as stated: with subnet, security-group and resource compared and
\* max-cardinality at least 1, a resource whose subnets, security groups and
\* own record all resolve the key to one non-null value gets an empty
\* evaluation list, is returned under match equal and not under not-equal.
C13_AsStated ==
    (Evaluated /\ Compare(nl.data) = DefaultCompare /\ MaxCardinality(nl.data) >= 1) =>
        \A i \in NLIdx :
            (/\ OwnValue(i) # None
             /\ ValuesOf("subnet", i) \subseteq {OwnValue(i)}
             /\ ValuesOf("security-group", i) \subseteq {OwnValue(i)}) =>
                /\ nl.evals[i] = <<>>
                /\ NLMatched(i) <=> MatchMode(nl.data) = "equal"
\* the value space of the specification: the distinct non-null values
ValueSpace(kind, i) == ValuesOf(kind, i) \ {None}

\* C21 as stated: the evaluation list holds one LocationMismatch entry when
\* subnet and security-group are both compared and the value space of the
\* subnets differs from that of the security groups, and none otherwise; one
\* subnet valued prod and one security group valued dev give the entry and a
\* match under not-equal.
C21_AsStated ==
    Evaluated =>
        \A i \in NLIdx :
            /\ CountOf(nl.evals[i], "LocationMismatch") =
                  IF /\ Kinds \subseteq Compare(nl.data)
                     /\ ValueSpace("subnet", i) # ValueSpace("security-group", i)
                  THEN 1 ELSE 0
            /\ (/\ Kinds \subseteq Compare(nl.data)
                /\ Len(KeptOf("subnet", i)) = 1 /\ ValuesOf("subnet", i) = {"prod"}
                /\ Len(KeptOf("security-group", i)) = 1
                /\ ValuesOf("security-group", i) = {"dev"}) =>
                   /\ "LocationMismatch" \in Reasons(nl.evals[i])
                   /\ NLMatched(i) <=> MatchMode(nl.data) = "not-equal"

ReportedAbsent(i) == ~MissingOk(nl.data) /\ OwnValue(i) = None
Outside(kind, i) ==
    /\ kind \in Compare(nl.data)
    /\ KeptOf(kind, i) # <<>>
    /\ OwnValue(i) \notin ValueSpace(kind, i)

\* C22 as stated: resource being compared and its own value not reported
\* absent, the evaluation list holds one ResourceLocationMismatch entry when
\* the value is outside the value space of the attached security groups or
\* outside that of the attached subnets, each kind counting when it is
\* compared and at least one is attached, and none otherwise.
C22_AsStated ==
    (Evaluated /\ "resource" \in Compare(nl.data)) =>
        \A i \in NLIdx :
            ~ReportedAbsent(i) =>
                CountOf(nl.evals[i], "ResourceLocationMismatch") =
                    IF Outside("security-group", i) \/ Outside("subnet", i) THEN 1 ELSE 0

SgValues(i) == ValuesById(nl.data["key"], KeptOf("security-group", i))
Differing(i) == {id \in DOMAIN SgValues(i) : SgValues(i)[id] # OwnValue(i)}
EntriesOf(evaluation, reason) ==
    SelectSeq(evaluation, LAMBDA e : e["reason"] = reason)

\* C23: resource and security-group being compared and at least one security
\* group attached, the evaluation list holds one SecurityGroupMismatch entry
\* when some attached security group's value differs from the resource's
\* value and none otherwise, and the entry's security-groups map holds the
\* differing groups with their values and no other group.
C23_MismatchListsDifferingGroups ==
    (Evaluated /\ {"resource", "security-group"} \subseteq Compare(nl.data)) =>
        \A i \in NLIdx :
            KeptOf("security-group", i) # <<>> =>
                LET found == EntriesOf(nl.evals[i], "SecurityGroupMismatch")
                IN  /\ Len(found) = IF Differing(i) # {} THEN 1 ELSE 0
                    /\ \A n \in 1..Len(found) :
                          /\ DOMAIN found[n]["security-groups"] = Differing(i)
                          /\ \A id \in Differing(i) :
                                found[n]["security-groups"][id] = SgValues(i)[id]

\* C23 witness: two security groups attached, one valued as the resource and
\* one not, and the entry lists the second alone.
C23_Witness ==
    /\ Evaluated /\ {"resource", "security-group"} \subseteq Compare(nl.data)
    /\ \E i \in NLIdx :
          /\ Len(KeptOf("security-group", i)) = 2
          /\ Cardinality(Differing(i)) = 1
          /\ "SecurityGroupMismatch" \in Reasons(nl.evals[i])

AbsentOf(kind, i) ==
    kind \in Compare(nl.data) /\
        IF kind = "resource" THEN OwnValue(i) = None ELSE None \in ValuesOf(kind, i)
AbsentReason(kind) ==
    CASE kind = "subnet" -> "SubnetLocationAbsent"
      [] kind = "security-group" -> "SecurityGroupLocationAbsent"
      [] kind = "resource" -> "ResourceLocationAbsent"

\* C24: the evaluation of every resource completes, and with missing-ok
\* false its list holds one SubnetLocationAbsent, SecurityGroupLocationAbsent
\* or ResourceLocationAbsent entry for each compared target (the subnets, the
\* security groups, the resource itself) one of whose values is absent and
\* none for the other targets; with missing-ok true the list holds no such
\* entry whatever the values are.
C24_AbsentIsAnEntry ==
    Evaluated =>
        \A i \in NLIdx : \A kind \in DefaultCompare :
            CountOf(nl.evals[i], AbsentReason(kind)) =
                IF ~MissingOk(nl.data) /\ AbsentOf(kind, i) THEN 1 ELSE 0

\* C24 witness: missing-ok false, a subnet, a security group and the resource
\* itself without a value, and the three entries in the list.
C24_Witness ==
    /\ Evaluated /\ ~MissingOk(nl.data)
    /\ \E i \in NLIdx :
          /\ \A kind \in DefaultCompare : AbsentOf(kind, i)
          /\ {AbsentReason(kind) : kind \in DefaultCompare} \subseteq Reasons(nl.evals[i])


(***************************************************************************)
(* NetworkLocation with an ignore list: the attachments carry a location   *)
(* and, some of them, a team.                                              *)
(***************************************************************************)
TeamKey == "tag:Team"
TeamAttrs ==
    <<(LocKey :> "dev"), (LocKey :> "dev") @@ (TeamKey :> "Apps"),
      (LocKey :> "dev") @@ (TeamKey :> "Infra"),
      (LocKey :> "prod"), (LocKey :> "prod") @@ (TeamKey :> "Apps"),
      (LocKey :> "prod") @@ (TeamKey :> "Infra")>>

IgnoreLists ==
    {<<>>,
     <<(TeamKey :> "Infra")>>,
     <<(TeamKey :> "Infra"), (LocKey :> "dev")>>,
     <<(TeamKey :> "Infra") @@ (LocKey :> "dev")>>}

NLIgnoreConfigs ==
    {("key" :> LocKey) @@ m @@ ig :
        m \in Opt("match", {"equal"}),
        ig \in Opt("ignore", IgnoreLists)}

InitNLIgnore == TagIdle /\ FgIdle /\ CocIdle /\ ActionsIdle /\ InitOneResource(NLIgnoreConfigs, TeamAttrs, {"dev", "prod"})

SpecNLIgnore == InitNLIgnore /\ [][NLProcess]_vars

\* the attachment matches a pair of an ignore entry
MatchesIgnore(a) ==
    \E n \in 1..Len(Get(nl.data, "ignore", <<>>)) :
        \E k \in DOMAIN nl.data["ignore"][n] : k \in DOMAIN a /\ a[k] = nl.data["ignore"][n][k]
IgnoredIds(kind) == {id \in DOMAIN nl.net[kind] : MatchesIgnore(nl.net[kind][id])}
\* the resource with the ignored attachments detached
Detached(r) ==
    [r EXCEPT !["sg_ids"] = SelectSeq(@, LAMBDA id : id \notin IgnoredIds("security-group")),
              !["subnet_ids"] = SelectSeq(@, LAMBDA id : id \notin IgnoredIds("subnet"))]
WithoutIgnore(data) == [k \in DOMAIN data \ {"ignore"} |-> data[k]]
RunOn(data, rs) == NetworkLocation_process(data, nl.net, rs)

\* C14: a security group or subnet matching at least one (key, value) pair of
\* an ignore entry takes no part in the evaluation, one matching none does:
\* the evaluation list and the verdict of every resource are those of the
\* same resource, without ignore list, attached to its unmatched security
\* groups and subnets only.
C14_IgnoredTakeNoPart ==
    NLDone =>
        \A i \in NLIdx :
            LET plain == RunOn(WithoutIgnore(nl.data), <<Detached(nl.batch[i])>>)
            IN  /\ nl.evals[i] = plain.evals[1]
                /\ NLMatched(i) <=> plain.results # <<>>

\* C14 witness: under ignore [{tag:Team: Infra}] a security group of team
\* Infra is dropped, one of another team is kept, and the drop changes the
\* evaluation list.
C14_Witness ==
    /\ NLDone
    /\ Get(nl.data, "ignore", <<>>) = <<(TeamKey :> "Infra")>>
    /\ \E i \in NLIdx :
          /\ \E a, b \in SeqSet(SgsOf(i)) :
                /\ Get(a, TeamKey, None) = "Infra"
                /\ Get(b, TeamKey, None) = "Apps"
                /\ a["id"] \notin SeqSet(Detached(nl.batch[i])["sg_ids"])
                /\ b["id"] \in SeqSet(Detached(nl.batch[i])["sg_ids"])
          /\ nl.evals[i] # RunOn(WithoutIgnore(nl.data), <<nl.batch[i]>>).evals[1]

(***************************************************************************)
(* NetworkLocation with match "in".                                        *)
(***************************************************************************)
NLInConfigs ==
    {("key" :> LocKey) @@ ("match" :> "in") @@ c @@ mo @@ v :
        c \in Opt("compare", (SUBSET DefaultCompare) \ {DefaultCompare}),
        mo \in Opt("missing-ok", {TRUE}),
        v \in Opt("value", {{"prod"}, {"dev", "prod"}})}

InitNLIn == TagIdle /\ FgIdle /\ CocIdle /\ ActionsIdle /\ InitOneResource(NLInConfigs, LocAttrs, Locs)

SpecNLIn == InitNLIn /\ [][NLProcess]_vars

Allowed == Get(nl.data, "value", {})

\* C15 as stated: under match "in" the resource is returned exactly when, for
\* every compared kind, the distinct non-null values of its attachments lie in
\* the allowed value list and none is absent unless missing-ok, and, resource
\* being compared, its own value lies in the list and is not absent unless
\* missing-ok; no returned resource carries a c7n:NetworkLocation annotation.
C15_AsStated ==
    (NLDone /\ MatchMode(nl.data) = "in") =>
        /\ \A k \in 1..Len(nl.results) : AnnotationKey \notin DOMAIN nl.results[k]
        /\ \A i \in NLIdx :
              NLMatched(i) <=>
                  /\ \A kind \in Kinds \cap Compare(nl.data) :
                        /\ (ValuesOf(kind, i) \ {None}) \subseteq Allowed
                        /\ MissingOk(nl.data) \/ None \notin ValuesOf(kind, i)
                  /\ "resource" \in Compare(nl.data) =>
                        /\ OwnValue(i) \in Allowed
                        /\ MissingOk(nl.data) \/ OwnValue(i) # None

(***************************************************************************)
(* NetworkLocation in every match mode                                     *)
(***************************************************************************)

InitNLModes ==
    TagIdle /\ FgIdle /\ CocIdle /\ ActionsIdle /\ InitOneResource(NLConfigs \cup NLInConfigs, LocAttrs, Locs)

SpecNLModes == InitNLModes /\ [][NLProcess]_vars

\* the place of an entry in the order of emission
EmissionRank(reason) ==
    CASE reason \in {"SubnetLocationAbsent", "SubnetLocationCardinality"} -> 1
      [] reason \in {"SecurityGroupLocationAbsent", "SecurityGroupLocationCardinality"} -> 2
      [] reason = "LocationMismatch" -> 3
      [] reason \in {"ResourceLocationAbsent", "ResourceLocationMismatch"} -> 4
      [] reason = "SecurityGroupMismatch" -> 5
InEmissionOrder(evaluation) ==
    \A m, n \in 1..Len(evaluation) :
        m < n => EmissionRank(evaluation[m]["reason"]) <= EmissionRank(evaluation[n]["reason"])
Annotated(i) == AnnotationKey \in DOMAIN nl.records[i]

\* C25: after process, a record of the batch carries c7n:NetworkLocation
\* exactly when match is not-equal and its evaluation list is not empty; the
\* annotation is then that list, whose entries stand in the order subnet
\* entries, security-group entries, LocationMismatch, resource entries,
\* SecurityGroupMismatch, and nothing else of the record has changed.  In
\* every other case (the evaluation list is empty, match is equal, match is
\* in) the record is the one handed in.
C25_AnnotationOnlyOnNotEqualMatch ==
    NLDone =>
        \A i \in NLIdx :
            IF MatchMode(nl.data) = "not-equal" /\ nl.evals[i] # <<>>
            THEN /\ Annotated(i)
                 /\ nl.records[i][AnnotationKey] = nl.evals[i]
                 /\ InEmissionOrder(nl.records[i][AnnotationKey])
                 /\ DOMAIN nl.records[i] = DOMAIN nl.batch[i] \cup {AnnotationKey}
                 /\ \A k \in DOMAIN nl.batch[i] : nl.records[i][k] = nl.batch[i][k]
            ELSE nl.records[i] = nl.batch[i]

\* C25 witness: under not-equal a record annotated with a list that runs from
\* a subnet entry to SecurityGroupMismatch.
C25_Witness ==
    /\ NLDone /\ MatchMode(nl.data) = "not-equal"
    /\ \E i \in NLIdx :
          /\ Annotated(i)
          /\ {"SubnetLocationAbsent", "LocationMismatch", "SecurityGroupMismatch"}
                \subseteq Reasons(nl.records[i][AnnotationKey])

\* C25 witness of the other cases: under equal and under in a record with a
\* non-empty evaluation, or rejected, is the record handed in.
C25_WitnessUnchanged ==
    /\ NLDone /\ MatchMode(nl.data) = "equal"
    /\ \E i \in NLIdx : nl.evals[i] # <<>> /\ ~NLMatched(i) /\ nl.records[i] = nl.batch[i]

(***************************************************************************)
(* A policy with a network-location filter and a subnet filter: validation *)
(* first, then the filters on the batch.                                   *)
(***************************************************************************)

\* mutant: validate asks for the subnet filter only
NetworkLocation_validate_subnet_only(rfilters) ==
    IF "subnet" \notin rfilters THEN "PolicyValidationError" ELSE None

\* validate: the exception raised, None when it returns self
NetworkLocation_validate(rfilters) ==
    IF "subnet" \notin rfilters THEN "PolicyValidationError"
    ELSE IF "security-group" \notin rfilters THEN "PolicyValidationError"
    ELSE None

\* policy validation; a policy that fails it is never run
NLValidate ==
    /\ nl.pc = "new"
    /\ LET error == NetworkLocation_validate(nl.registry)
       IN  nl' = [nl EXCEPT !.error = error,
                            !.pc = IF error = None THEN "valid" ELSE "rejected"]
    /\ UNCHANGED <<tag_vars, sf_vars, fg_vars, coc_vars, action_vars>>

\* get_route_tables: vpc id -> the route tables of the vpc, one occurrence for
\* every default route of type peering
RECURSIVE get_route_tables(_)
get_route_tables(tables) ==
    IF tables = <<>> THEN EmptyDict
    ELSE LET r == tables[Len(tables)]
             before == get_route_tables(SubSeq(tables, 1, Len(tables) - 1))
             routes == Get(r, "routes", <<>>)
             hits == Cardinality({n \in 1..Len(routes) :
                         /\ Get(routes[n], "destination", None) = "0.0.0.0/0"
                         /\ Get(routes[n], "type", None) = "peering"})
             vpc_id == Get(r, "vpc_id", None)
         IN  IF hits = 0 THEN before
             ELSE DictPut(before, vpc_id, Get(before, vpc_id, <<>>) \o [n \in 1..hits |-> r])

\* match_igw, check_igw being data['igw']
match_igw(check_igw, route_tables, subnet) ==
    LET vpc_id == Get(subnet, "vpc_id", None)
    IN  IF vpc_id \notin DOMAIN route_tables THEN FALSE
        ELSE IF check_igw THEN route_tables[vpc_id] # <<>>
        ELSE ~(route_tables[vpc_id] # <<>>)

\* SubnetFilter.match; ValueFilter.match compares the key's value
SubnetFilter_match(data, route_tables, related) ==
    IF "igw" \in DOMAIN data /\ ~match_igw(data["igw"], route_tables, related)
    THEN FALSE
    ELSE get_resource_value(data["key"], related) = data["value"]

\* the collaborator calls and evaluations of SubnetFilter.process, in order
SubnetCalls(data, rs) ==
       <<Call("get_related", "subnet")>>
    \o (IF "igw" \in DOMAIN data THEN <<Call("resources", "route-table")>> ELSE <<>>)
    \o [i \in 1..Len(rs) |-> Call("process_resource", rs[i]["id"])]

SubnetFilter_process(data, provider, rs) ==
    LET related == get_related("subnet", provider, rs)
        route_tables == IF "igw" \in DOMAIN data
                        THEN get_route_tables(provider["route-table"]) ELSE EmptyDict
        process_resource_(r) ==
            \E sid \in SeqSet(get_related_ids("subnet", r)) \cap DOMAIN related :
                SubnetFilter_match(data, route_tables, related[sid])
    IN  [results |-> SelectSeq(rs, process_resource_),
         trace |-> SubnetCalls(data, rs)]

\* the policy run: SubnetFilter.process on the batch of a validated policy
SubnetProcess ==
    /\ sf.pc = "valid"
    /\ nl.pc \in {"valid", "done"}
    /\ LET run == SubnetFilter_process(sf.data, nl.net, nl.batch)
       IN  sf' = [sf EXCEPT !.results = run.results,
                            !.trace = sf.trace \o run.trace,
                            !.pc = "done"]
    /\ UNCHANGED <<tag_vars, nl_vars, fg_vars, coc_vars, action_vars>>

MaxBatch == 2   \* largest batch of a policy run

PolicySgs ==
    <<("id" :> "sg-1") @@ (LocKey :> "prod"), ("id" :> "sg-2") @@ (LocKey :> "dev")>>
PolicySubnets ==
    <<("id" :> "subnet-1") @@ (LocKey :> "prod") @@ ("vpc_id" :> "vpc-1"),
      ("id" :> "subnet-2") @@ (LocKey :> "dev") @@ ("vpc_id" :> "vpc-2")>>
PeeringRoute == [destination |-> "0.0.0.0/0", type |-> "peering"]
LocalRoute == [destination |-> "10.0.0.0/8", type |-> "local"]
RouteTables ==
    {<<>>,
     <<[id |-> "rtb-1", vpc_id |-> "vpc-1", routes |-> <<LocalRoute, PeeringRoute>>],
       [id |-> "rtb-2", vpc_id |-> "vpc-2", routes |-> <<LocalRoute>>]>>}
PolicyResources ==
    {("id" :> "r") @@ (LocKey :> "prod") @@ ("sg_ids" :> g) @@ ("subnet_ids" :> n) :
        g \in {<<"sg-1">>, <<"sg-1", "sg-2">>, <<"sg-9">>},
        n \in {<<"subnet-1">>, <<"subnet-2">>}}
PolicyBatches ==
    UNION {{[i \in 1..n |-> [f[i] EXCEPT !["id"] = ResId(i)]] : f \in [1..n -> PolicyResources]} :
           n \in 0..MaxBatch}

InitNLPolicy ==
    /\ TagIdle /\ FgIdle /\ CocIdle /\ ActionsIdle
    /\ \E m \in Opt("match", {"equal"}),
          present \in SUBSET {"subnet", "security-group"},
          tables \in RouteTables, batch \in PolicyBatches :
          nl = [NetworkLocationIdle EXCEPT
                   !.data = ("key" :> LocKey) @@ m,
                   !.registry = {"value"} \cup present,
                   !.net = [ProviderOf(PolicySgs, PolicySubnets) EXCEPT
                               !["route-table"] = tables],
                   !.batch = batch,
                   !.pc = "new"]
    /\ \E g \in Opt("igw", {TRUE, FALSE}) :
          sf = [data |-> ("key" :> LocKey) @@ ("value" :> "prod") @@ g,
                trace |-> <<>>, results |-> <<>>, pc |-> "valid"]

NextNLPolicy == NLValidate \/ NLProcess \/ SubnetProcess

SpecNLPolicy == InitNLPolicy /\ [][NextNLPolicy]_vars

Rejected == ~({"subnet", "security-group"} \subseteq nl.registry)

\* C16: when the subnet filter or the security-group filter is not
\* registered, validation raises PolicyValidationError, and the policy is
\* never run: no related resource is retrieved, no resource is evaluated and
\* nothing is returned.
C16_RejectedBeforeProcessing ==
    Rejected =>
        /\ nl.pc \in {"new", "rejected"}
        /\ nl.pc = "rejected" => nl.error = "PolicyValidationError"
        /\ nl.trace = <<>> /\ nl.evals = <<>> /\ nl.results = <<>>
        /\ sf.trace = <<>>

\* C16 witness: the security-group filter alone is missing, the batch is not
\* empty, and validation has raised.
C16_Witness ==
    /\ "subnet" \in nl.registry /\ "security-group" \notin nl.registry
    /\ nl.batch # <<>>
    /\ nl.pc = "rejected"
    /\ nl.error = "PolicyValidationError"

Positions(trace, call) == {n \in 1..Len(trace) : trace[n] = call}
EvaluationsIn(trace) == {n \in 1..Len(trace) : trace[n].call = "process_resource"}

\* C17: NetworkLocation.process retrieves the related security groups once
\* and the related subnets once, both before it evaluates the first resource,
\* whatever the size of the batch; SubnetFilter.process retrieves the related
\* subnets once and lists the route tables once when igw is configured and
\* never otherwise; each evaluates every resource of the batch once.
C17_OneRetrievalPerBatch ==
    /\ nl.pc = "done" =>
          /\ \A kind \in Kinds :
                /\ Cardinality(Positions(nl.trace, Call("get_related", kind))) = 1
                /\ \A n \in Positions(nl.trace, Call("get_related", kind)) :
                      \A e \in EvaluationsIn(nl.trace) : n < e
          /\ Cardinality(EvaluationsIn(nl.trace)) = Len(nl.batch)
    /\ sf.pc = "done" =>
          /\ Cardinality(Positions(sf.trace, Call("get_related", "subnet"))) = 1
          /\ Cardinality(Positions(sf.trace, Call("resources", "route-table"))) =
                IF "igw" \in DOMAIN sf.data THEN 1 ELSE 0
          /\ Cardinality(EvaluationsIn(sf.trace)) = Len(nl.batch)

\* C17 witness: both filters have run on a batch of two resources, the
\* subnet filter with igw configured.
C17_Witness ==
    /\ nl.pc = "done" /\ sf.pc = "done"
    /\ Len(nl.batch) = 2
    /\ "igw" \in DOMAIN sf.data
    /\ Len(nl.trace) = 4 /\ Len(sf.trace) = 4

(***************************************************************************)
(* Part 3: resources/functiongraph.py, the filters trigger-type            *)
(* (FunctionTrigger) and reserved-concurrency (ReservedConcurrency).       *)
(*                                                                         *)
(* process hands one _augment task per resource to an executor of          *)
(* max_workers threads (map submits them all, in input order), reads the   *)
(* results in input order, and leaves the with block once no task runs.    *)
(*   - the response of a list call is a record: status "ok" with a body,   *)
(*     "null" (the body is None), "client_error" (the call raises          *)
(*     ClientRequestException) or "connection_error" (it raises the SDK's  *)
(*     ConnectionException);                                               *)
(*   - a filter key that is a path into the record is a sequence of names. *)
(***************************************************************************)
MaxWorkers == 3

TriggerKind == "trigger-type"
ReservedKind == "reserved-concurrency"
annotation_key(kind) ==
    IF kind = TriggerKind THEN "c7n:FunctionTrigger" ELSE "c7n:FunctionReservedConcurrency"

\* eval(str(x).replace('null', 'None').replace('false', 'False')
\*                   .replace('true', 'True')) on one value of the response
PyEval(v) ==
    CASE v = "null" -> None
      [] v = "true" -> "True"
      [] v = "false" -> "False"
      [] v = "t-null-route" -> "t-None-route"
      [] OTHER -> v
PyEvalDict(d) == [k \in DOMAIN d |-> PyEval(d[k])]

\* mutant: every task writes the annotation it fetched to the record the
\* loop variable names last
AnnotationTarget_last(rs, i) == Len(rs)

\* the record a task annotates: its own
AnnotationTarget(rs, i) == i

\* _augment(r) given the response to its list call: how it ends and the
\* value it stores under the annotation key, if any
\* mutant: a client error is swallowed and the resource dropped
augment_swallow(kind, r, response) ==
    IF response.status = "client_error"
    THEN [ends |-> "none", store |-> <<>>]
    ELSE IF response.status = "connection_error"
    THEN [ends |-> "ConnectionException", store |-> <<>>]
    ELSE IF response.status = "null"
    THEN [ends |-> "none", store |-> <<>>]
    ELSE [ends |-> "returned", store |-> <<>>]

augment(kind, r, response) ==
    IF response.status = "client_error"
    THEN [ends |-> "PolicyExecutionError", store |-> <<>>]
    ELSE IF response.status = "connection_error"
    THEN [ends |-> "ConnectionException", store |-> <<>>]
    ELSE IF response.status = "null"
    THEN [ends |-> "none", store |-> <<>>]
    ELSE IF kind = TriggerKind
    THEN [ends |-> "returned",
          store |-> <<[n \in 1..Len(response.body) |-> PyEvalDict(response.body[n])]>>]
    ELSE LET own == SelectSeq(response.body,
                        LAMBDA ri : ri["function_urn"] = <<r["func_urn"], r["version"]>>)
         IN  [ends |-> "returned",
              store |-> IF own = <<>> THEN <<>> ELSE <<PyEvalDict(own[Len(own)])>>]

\* OPERATORS[op](r, v) of c7n
Operator(op, r, v) == IF op = "ne" THEN r # v ELSE r = v

\* FunctionTrigger.match, lines 247-272
FunctionTrigger_match(data, i) ==
    LET resources_triggers == Get(i, annotation_key(TriggerKind), <<>>)
        v == Get(data, "value", None)
        value(n) == Get(resources_triggers[n], data["key"], None)
        Special(r) ==
            \/ r = None /\ v = "absent"
            \/ r # None /\ v = "present"
            \/ v = "not-null" /\ Truthy(r)
            \/ v = "empty" /\ ~Truthy(r)
    IN  IF "op" \in DOMAIN data
        THEN /\ resources_triggers # <<>>
             /\ Special(value(1)) \/ Operator(data["op"], value(1), v)
        ELSE \E n \in 1..Len(resources_triggers) : Special(value(n)) \/ value(n) = v

\* ValueFilter.match of c7n on a key that is a path
RECURSIVE Lookup(_, _)
Lookup(path, d) ==
    IF path = <<>> THEN d
    ELSE IF Head(path) \in DOMAIN d THEN Lookup(Tail(path), d[Head(path)])
    ELSE None
ValueFilter_match(data, i) == Lookup(data["key"], i) = data["value"]

\* super().process(resources, event): the resources the filter matches
ValueFilter_process(kind, data, rs) ==
    SelectSeq(rs, LAMBDA r : IF kind = TriggerKind THEN FunctionTrigger_match(data, r)
                             ELSE ValueFilter_match(data, r))

\* line 114 of ReservedConcurrency.process: the prefix is put before the key
\* of self.data; FunctionTrigger.process leaves self.data alone
process_key(kind, data) ==
    IF kind = ReservedKind
    THEN [data EXCEPT !["key"] = <<annotation_key(ReservedKind)>> \o @]
    ELSE data

Running == {i \in 1..Len(fg.task) : fg.task[i] = "running"}
Failures == {"PolicyExecutionError", "ConnectionException"}

\* process up to the with block: line 114 of ReservedConcurrency, and map
\* submitting one task per resource
FGSubmit ==
    /\ fg.pc = "ready"
    /\ fg' = [fg EXCEPT
                 !.data = process_key(fg.kind, fg.data),
                 !.calls = Append(@, process_key(fg.kind, fg.data)),
                 !.task = [i \in 1..Len(fg.batch) |-> "pending"],
                 !.pc = "pool"]
    /\ UNCHANGED <<tag_vars, nl_vars, sf_vars, coc_vars, action_vars>>

\* a free worker takes the oldest task not started yet
FGStart ==
    /\ fg.pc \in {"pool", "draining"}
    /\ Cardinality(Running) < MaxWorkers
    /\ \E i \in 1..Len(fg.task) :
          /\ fg.task[i] = "pending"
          /\ \A j \in 1..(i - 1) : fg.task[j] # "pending"
          /\ fg' = [fg EXCEPT !.task[i] = "running"]
    /\ UNCHANGED <<tag_vars, nl_vars, sf_vars, coc_vars, action_vars>>

\* a running task runs _augment to its end
FGFinish ==
    /\ fg.pc \in {"pool", "draining"}
    /\ \E i \in Running :
          LET r == fg.batch[i]
              done == augment(fg.kind, r, fg.api[r["func_urn"]])
              target == AnnotationTarget(fg.batch, i)
          IN  fg' = [fg EXCEPT
                        !.task[i] = done.ends,
                        !.batch = IF done.store = <<>> THEN fg.batch
                                  ELSE [fg.batch EXCEPT ![target] =
                                           DictPut(@, annotation_key(fg.kind), done.store[1])]]
    /\ UNCHANGED <<tag_vars, nl_vars, sf_vars, coc_vars, action_vars>>

\* the results read in input order reach a task that raised: the exception
\* leaves list(...), the tasks not started yet are cancelled
FGAbort ==
    /\ fg.pc = "pool"
    /\ \E k \in 1..Len(fg.task) :
          /\ fg.task[k] \in Failures
          /\ \A j \in 1..(k - 1) : fg.task[j] \in {"returned", "none"}
          /\ fg' = [fg EXCEPT
                       !.outcome = [kind |-> "raised", error |-> fg.task[k]],
                       !.task = [i \in 1..Len(fg.task) |->
                                    IF fg.task[i] = "pending" THEN "cancelled" ELSE fg.task[i]],
                       !.pc = "draining"]
    /\ UNCHANGED <<tag_vars, nl_vars, sf_vars, coc_vars, action_vars>>

\* the with block is left once no task runs, and the exception leaves process
FGRaise ==
    /\ fg.pc = "draining"
    /\ Running = {}
    /\ fg' = [fg EXCEPT !.pc = "done"]
    /\ UNCHANGED <<tag_vars, nl_vars, sf_vars, coc_vars, action_vars>>

\* every result was read: list(filter(None, ...)), then super().process
FGReturn ==
    /\ fg.pc = "pool"
    /\ \A i \in 1..Len(fg.task) : fg.task[i] \in {"returned", "none"}
    /\ LET kept == SelectSeq([i \in 1..Len(fg.task) |-> i], LAMBDA i : fg.task[i] = "returned")
           survivors == [k \in 1..Len(kept) |-> fg.batch[kept[k]]]
       IN  fg' = [fg EXCEPT
                     !.outcome = [kind |-> "returned", survivors |-> survivors,
                                  resources |-> ValueFilter_process(fg.kind, fg.data, survivors)],
                     !.pc = "done"]
    /\ UNCHANGED <<tag_vars, nl_vars, sf_vars, coc_vars, action_vars>>

MaxCalls == 2   \* calls of process on one filter instance

\* process has returned or raised, and the policy calls it again on the same
\* filter instance with a batch of fresh records
FGAgain ==
    /\ fg.pc = "done"
    /\ Len(fg.calls) < MaxCalls
    /\ fg' = [fg EXCEPT !.batch = fg.input, !.task = <<>>,
                        !.outcome = [kind |-> "none"], !.pc = "ready"]
    /\ UNCHANGED <<tag_vars, nl_vars, sf_vars, coc_vars, action_vars>>

MaxFn == 4      \* largest batch of functions

FnUrn(i) == <<"urn-1", "urn-2", "urn-3", "urn-4", "urn-5", "urn-6">>[i]
Function(i) == [func_urn |-> FnUrn(i), version |-> "latest"]

\* the body of a successful list call for function i
OkBody(kind, i) ==
    IF kind = TriggerKind
    THEN (IF i % 2 = 1
          THEN <<[trigger_id |-> "t-null-route", trigger_type_code |-> "TIMER",
                  trigger_status |-> "ACTIVE", owner |-> FnUrn(i)]>>
          ELSE <<[trigger_id |-> "t-smn", trigger_type_code |-> "SMN",
                  trigger_status |-> "DISABLED", owner |-> FnUrn(i)],
                 [trigger_id |-> "t-timer", trigger_type_code |-> "TIMER",
                  trigger_status |-> "ACTIVE", owner |-> FnUrn(i)]>>)
    ELSE (IF i % 2 = 1
          THEN <<[function_urn |-> <<FnUrn(i), "v1">>, min_count |-> "2", idle_mode |-> "false"],
                 [function_urn |-> <<FnUrn(i), "latest">>, min_count |-> "1", idle_mode |-> "true"]>>
          ELSE <<[function_urn |-> <<FnUrn(i), "v1">>, min_count |-> "1", idle_mode |-> "null"]>>)

FGConfigs(kind) ==
    IF kind = TriggerKind
    THEN {[type |-> kind, key |-> "trigger_type_code", value |-> "TIMER"],
          [type |-> kind, key |-> "trigger_type_code", value |-> "TIMER", op |-> "eq"]}
    ELSE {[type |-> kind, key |-> <<"min_count">>, value |-> "1"]}

InitFG ==
    /\ TagIdle /\ VpcIdle /\ CocIdle /\ ActionsIdle
    /\ \E kind \in {TriggerKind, ReservedKind}, n \in 0..MaxFn :
          \E data \in FGConfigs(kind),
             answers \in [1..n -> {"ok", "null", "client_error", "connection_error"}] :
             LET input == [i \in 1..n |-> Function(i)]
                 api == [urn \in {FnUrn(i) : i \in 1..n} |->
                            LET i == CHOOSE j \in 1..n : FnUrn(j) = urn
                            IN  IF answers[i] = "ok"
                                THEN [status |-> "ok", body |-> OkBody(kind, i)]
                                ELSE [status |-> answers[i]]]
             IN  fg = [kind |-> kind, data |-> data, api |-> api, input |-> input,
                       batch |-> input, task |-> <<>>, outcome |-> [kind |-> "none"],
                       calls |-> <<>>, pc |-> "ready"]

NextFG ==
    \/ FGSubmit
    \/ FGStart
    \/ FGFinish
    \/ FGAbort
    \/ FGRaise
    \/ FGReturn
    \/ FGAgain

SpecFG == InitFG /\ [][NextFG]_vars

(***************************************************************************)
(* Claims about the worker pool of the FunctionGraph filters.              *)
(***************************************************************************)
FGIdx == 1..Len(fg.input)
Answer(i) == fg.api[fg.input[i]["func_urn"]]
\* the record of resource i once its own task has stored what it fetched
OwnResult(i) ==
    LET done == augment(fg.kind, fg.input[i], Answer(i))
    IN  IF done.store = <<>> THEN fg.input[i]
        ELSE DictPut(fg.input[i], annotation_key(fg.kind), done.store[1])
Failing == {i \in FGIdx : Answer(i).status \in {"client_error", "connection_error"}}
FirstFailing == CHOOSE i \in Failing : \A j \in Failing : i <= j
\* process with the tasks run one after the other, in input order
Sequential ==
    IF Failing # {}
    THEN [kind |-> "raised",
          error |-> IF Answer(FirstFailing).status = "client_error"
                    THEN "PolicyExecutionError" ELSE "ConnectionException"]
    ELSE LET kept == SelectSeq([i \in FGIdx |-> i], LAMBDA i : Answer(i).status = "ok")
             survivors == [k \in 1..Len(kept) |-> OwnResult(kept[k])]
         IN  [kind |-> "returned", survivors |-> survivors,
              resources |-> ValueFilter_process(fg.kind, fg.data, survivors)]

\* C18: at most 3 tasks run at a time; whatever the interleaving, a task
\* changes nothing but the annotation of its own resource record, which then
\* holds what was fetched for that resource; the resources that survive the
\* fan-in are in input order, and what process returns or raises is what it
\* returns or raises with the tasks run one after the other.
C18_PoolKeepsSequentialOutcome ==
    /\ Cardinality(Running) <= MaxWorkers
    /\ \A i \in 1..Len(fg.batch) :
          \/ fg.batch[i] = fg.input[i]
          \/ fg.task[i] = "returned" /\ fg.batch[i] = OwnResult(i)
    /\ fg.pc = "done" => fg.outcome = Sequential

\* C18 witness: a batch larger than the pool was processed, some resources
\* were dropped at the fan-in and two or more survived with their annotation.
C18_Witness ==
    /\ fg.pc = "done"
    /\ Len(fg.input) > MaxWorkers
    /\ fg.outcome.kind = "returned"
    /\ Len(fg.outcome.survivors) >= 2
    /\ Len(fg.outcome.survivors) < Len(fg.input)
    /\ \A k \in 1..Len(fg.outcome.survivors) :
          annotation_key(fg.kind) \in DOMAIN fg.outcome.survivors[k]

\* C19 as stated: when the list call of a resource of the batch fails,
\* process raises PolicyExecutionError and returns no list.
C19_AsStated ==
    (fg.pc = "done" /\ Failing # {}) =>
        /\ fg.outcome.kind = "raised"
        /\ fg.outcome.error = "PolicyExecutionError"

\* C19 amended: when the list call of a resource of the batch fails, process
\* returns no list, whatever the other tasks did and in whatever order: it
\* raises for the first such resource in input order, PolicyExecutionError
\* when that call raised ClientRequestException and the call's own exception
\* otherwise; and process returns a list only when no call failed.
C19_FailureAbortsBatch ==
    /\ (fg.pc = "done" /\ Failing # {}) =>
          /\ fg.outcome.kind = "raised"
          /\ fg.outcome.error = IF Answer(FirstFailing).status = "client_error"
                                THEN "PolicyExecutionError" ELSE "ConnectionException"
    /\ fg.outcome.kind = "returned" => Failing = {}

\* C19 witness: the call of the last resource failed with a client error
\* after other tasks had succeeded, and process raised PolicyExecutionError.
C19_Witness ==
    /\ fg.pc = "done"
    /\ Len(fg.input) > MaxWorkers
    /\ Failing = {Len(fg.input)}
    /\ \E i \in FGIdx : fg.task[i] = "returned" /\ fg.batch[i] # fg.input[i]
    /\ fg.outcome = [kind |-> "raised", error |-> "PolicyExecutionError"]

(***************************************************************************)
(* Claims about the filters called more than once, and about the match of  *)
(* trigger-type.                                                           *)
(***************************************************************************)
PrefixCount(data) ==
    Cardinality({n \in 1..Len(data["key"]) : data["key"][n] = annotation_key(ReservedKind)})

\* C26 as stated: every call of ReservedConcurrency.process on one filter
\* instance evaluates the key with the prefix applied once, and the
\* configuration the second call leaves is the one the first call left.
C26_AsStated ==
    fg.kind = ReservedKind =>
        \A n \in 1..Len(fg.calls) :
            /\ PrefixCount(fg.calls[n]) = 1
            /\ fg.calls[n] = fg.calls[1]

Triggers(r) == Get(r, annotation_key(TriggerKind), <<>>)
Satisfies(data, trigger) ==
    Operator(data["op"], Get(trigger, data["key"], None), data["value"])

\* C27 as stated: with an op configured, the functions trigger-type returns
\* are the surviving functions one of whose triggers, at whatever place of
\* the list, satisfies op(trigger[key], value); a function without triggers
\* is not returned.
C27_AsStated ==
    (/\ fg.pc = "done" /\ fg.kind = TriggerKind /\ "op" \in DOMAIN fg.data
     /\ fg.outcome.kind = "returned") =>
        fg.outcome.resources =
            SelectSeq(fg.outcome.survivors,
                      LAMBDA r : \E n \in 1..Len(Triggers(r)) :
                                     Satisfies(fg.data, Triggers(r)[n]))

(***************************************************************************)
(* Part 4: resources/coc.py, ScriptNonReviewerFilter.                      *)
(***************************************************************************)
\* properties: None in a script record
NoneProperties == [isNone |-> TRUE]

\* bool(properties) for properties a dict or None
TruthyDict(d) == d # NoneProperties /\ DOMAIN d # {}

\* ScriptNonReviewerFilter.process: the loop over a non-empty batch
RECURSIVE filter_resources(_)
filter_resources(rs) ==
    IF rs = <<>> THEN <<>>
    ELSE LET resource == Head(rs)
             properties == Get(resource, "properties", NoneProperties)
         IN  IF ~TruthyDict(properties)
             THEN filter_resources(Tail(rs))
             ELSE LET reviewers == Get(properties, "reviewers", <<>>)
                  IN  IF Len(reviewers) = 0
                      THEN <<resource>> \o filter_resources(Tail(rs))
                      ELSE filter_resources(Tail(rs))

\* ScriptNonReviewerFilter.process(resources): the list returned, and whether
\* it is the list that was passed in
ScriptNonReviewerFilter_process(rs) ==
    IF rs = <<>>
    THEN [kind |-> "returned", value |-> rs, is_input |-> TRUE]
    ELSE [kind |-> "returned", value |-> filter_resources(rs), is_input |-> FALSE]

\* the filter runs on the batch; no script record is assigned to
CocProcess ==
    /\ coc.pc = "ready"
    /\ coc' = [coc EXCEPT !.result = ScriptNonReviewerFilter_process(coc.batch),
                          !.pc = "done"]
    /\ UNCHANGED <<tag_vars, nl_vars, sf_vars, fg_vars, action_vars>>

MaxScripts == 3     \* largest batch of scripts

ScriptId(i) == <<"script-1", "script-2", "script-3", "script-4">>[i]
Reviewer == [reviewer_name |-> "alice", reviewer_id |-> "u-1"]

\* the properties of a script as the list call may deliver them
ScriptProperties ==
    {NoneProperties, EmptyDict, "risk_level" :> "LOW"}
    \cup {r @@ l : r \in {"reviewers" :> <<>>, "reviewers" :> <<Reviewer>>},
                   l \in Opt("risk_level", {"LOW"})}

\* script i of a batch, with or without a properties field
Script(i, p) == ("id" :> ScriptId(i)) @@ ("name" :> ScriptId(i)) @@ p

ScriptBatches ==
    UNION {{[i \in 1..n |-> Script(i, f[i])] :
               f \in [1..n -> Opt("properties", ScriptProperties)]} : n \in 0..MaxScripts}

InitCoc ==
    /\ TagIdle /\ VpcIdle /\ FgIdle /\ ActionsIdle
    /\ \E batch \in ScriptBatches :
          coc = [batch |-> batch, result |-> [kind |-> "none"], pc |-> "ready"]

SpecCoc == InitCoc /\ [][CocProcess]_vars

\* the reviewers a script has configured
ReviewersOf(r) ==
    LET properties == Get(r, "properties", NoneProperties)
    IN  Get(properties, "reviewers", <<>>)
NoReviewer(r) == ReviewersOf(r) = <<>>

\* C20: process returns exactly the input scripts whose reviewers list is
\* empty or absent, in input order and as they were passed in, and returns an
\* empty input unchanged.
C20_AsStated ==
    coc.pc = "done" =>
        /\ coc.result.kind = "returned"
        /\ coc.result.value = SelectSeq(coc.batch, NoReviewer)
        /\ coc.batch = <<>> => coc.result.is_input

(***************************************************************************)
(* Part 5: resources/functiongraph.py, the action trim-versions            *)
(* (TrimVersions.perform_action on one function).                          *)
(*   - a version is a record of its name and the day it was last modified; *)
(*     days are integers and no version is modified after today;           *)
(*   - the body of list_version_aliases is None or a list of aliases, of   *)
(*     which the action reads the version each one binds.                  *)
(***************************************************************************)
MaxVersions == 2    \* longest list of versions

\* parse_date(datetime.now()), as a day number
Now == 10

\* mutant: a version modified on the threshold day is kept
skip_delete_function_version_on_threshold(data, version, versions_binding_aliases) ==
    IF version.version = "latest" THEN TRUE
    ELSE IF Get(data, "exclude-aliases", TRUE) /\ version.version \in versions_binding_aliases
    THEN TRUE
    ELSE IF "older-than" \in DOMAIN data /\ data["older-than"] # 0
    THEN version.last_modified >= Now - data["older-than"]
    ELSE FALSE

\* TrimVersions.skip_delete_function_version, lines 662-681
skip_delete_function_version(data, version, versions_binding_aliases) ==
    IF version.version = "latest" THEN TRUE
    ELSE IF Get(data, "exclude-aliases", TRUE) /\ version.version \in versions_binding_aliases
    THEN TRUE
    ELSE IF "older-than" \in DOMAIN data /\ data["older-than"] # 0
    THEN version.last_modified > Now - data["older-than"]
    ELSE FALSE

\* perform_action up to the loop, lines 597-629: the two list calls and the
\* return for a function that has the version latest alone
TVList ==
    /\ tv.pc = "ready"
    /\ tv' = IF tv.fail \in {"list_function_versions", "list_version_aliases"}
             THEN [tv EXCEPT !.outcome = "PolicyExecutionError", !.pc = "done"]
             ELSE IF Len(tv.versions) = 1 /\ tv.versions[1].version = "latest"
             THEN [tv EXCEPT !.outcome = "returned", !.pc = "done"]
             ELSE [tv EXCEPT !.pc = "loop"]
    /\ UNCHANGED <<tag_vars, nl_vars, sf_vars, fg_vars, coc_vars, elb, alarm>>

\* one turn of the loop over versions, lines 630-641 and 643-660, or its end
TVStep ==
    /\ tv.pc = "loop"
    /\ LET versions_binding_aliases == IF tv.aliases.isNone THEN {} ELSE tv.aliases.versions
       IN  tv' = IF tv.idx > Len(tv.versions)
                 THEN [tv EXCEPT !.outcome = "returned", !.pc = "done"]
                 ELSE LET version == tv.versions[tv.idx]
                      IN  IF skip_delete_function_version(tv.data, version,
                                                          versions_binding_aliases)
                          THEN [tv EXCEPT !.idx = @ + 1]
                          ELSE IF tv.fail = version.version
                          THEN [tv EXCEPT !.deleted = Append(@, version.version),
                                          !.outcome = "PolicyExecutionError", !.pc = "done"]
                          ELSE [tv EXCEPT !.deleted = Append(@, version.version),
                                          !.idx = @ + 1]
    /\ UNCHANGED <<tag_vars, nl_vars, sf_vars, fg_vars, coc_vars, elb, alarm>>

VersionName(i) == <<"latest", "v1", "v2", "v3", "v4">>[i]

\* the lists of versions: distinct names in any order, modified today,
\* yesterday or the day before
VersionLists ==
    UNION {{[i \in 1..n |-> [version |-> VersionName(f[i]), last_modified |-> Now - age[i]]] :
               f \in {g \in [1..n -> 1..(MaxVersions + 1)] :
                         \A i, j \in 1..n : g[i] = g[j] => i = j},
               age \in [1..n -> {0, 1, 2}]} :
           n \in 0..MaxVersions}

InitTV ==
    /\ TagIdle /\ VpcIdle /\ FgIdle /\ CocIdle
    /\ elb = [pc |-> "idle"] /\ alarm = [pc |-> "idle"]
    /\ \E ea \in Opt("exclude-aliases", {FALSE}), ot \in Opt("older-than", {0, 1}),
          versions \in VersionLists,
          aliases \in {[isNone |-> TRUE, versions |-> {}]}
                        \cup {[isNone |-> FALSE, versions |-> bound] :
                                 bound \in SUBSET {"latest", "v1"}},
          fail \in {"none", "list_function_versions", "list_version_aliases", "v1"} :
          tv = [data |-> ("type" :> "trim-versions") @@ ea @@ ot, versions |-> versions,
                aliases |-> aliases, fail |-> fail, idx |-> 1, deleted |-> <<>>,
                outcome |-> "none", pc |-> "ready"]

SpecTV == InitTV /\ [][TVList \/ TVStep]_vars

(***************************************************************************)
(* Claims about trim-versions.                                             *)
(***************************************************************************)
ExcludeAliases == Get(tv.data, "exclude-aliases", TRUE)
Bound == IF tv.aliases.isNone THEN {} ELSE tv.aliases.versions
TVIdx == 1..Len(tv.versions)
Eligible(n) ==
    LET version == tv.versions[n]
    IN  /\ version.version # "latest"
        /\ ExcludeAliases => version.version \notin Bound
        /\ "older-than" \in DOMAIN tv.data =>
              version.last_modified <= Now - tv.data["older-than"]
EligibleNames == {tv.versions[n].version : n \in {m \in TVIdx : Eligible(m)}}
OnlyLatest == Len(tv.versions) = 1 /\ tv.versions[1].version = "latest"
\* the two list calls gave perform_action its versions and aliases
Listed == tv.fail \notin {"list_function_versions", "list_version_aliases"}

\* C28 as stated: for the versions and aliases the list calls return, the
\* versions a delete was issued for are the versions not named latest, not bound to an alias when exclude-aliases is true, and,
\* older-than being set, last modified no later than now minus older-than
\* days; the version latest and the versions bound to an alias are never
\* deleted; a function with the version latest alone gets no delete call.
C28_AsStated ==
    /\ (tv.pc = "done" /\ Listed) => SeqSet(tv.deleted) = EligibleNames
    /\ "latest" \notin SeqSet(tv.deleted)
    /\ SeqSet(tv.deleted) \cap Bound = {}
    /\ OnlyLatest => tv.deleted = <<>>

\* C28 amended: when no call fails, the versions a delete was issued for are
\* the versions not named latest, not bound to an alias when exclude-aliases
\* is true, and, older-than being set, last modified no later than now minus
\* older-than days; when a call fails the deletes issued so far are among
\* those versions, each issued once.  The version latest is never deleted, a
\* version bound to an alias is never deleted while exclude-aliases is true,
\* and a function with the version latest alone gets no delete call.
C28_DeletesEligibleVersions ==
    /\ (tv.pc = "done" /\ tv.outcome = "returned") => SeqSet(tv.deleted) = EligibleNames
    /\ SeqSet(tv.deleted) \subseteq EligibleNames
    /\ Cardinality(SeqSet(tv.deleted)) = Len(tv.deleted)
    /\ "latest" \notin SeqSet(tv.deleted)
    /\ ExcludeAliases => SeqSet(tv.deleted) \cap Bound = {}
    /\ OnlyLatest => tv.deleted = <<>>

\* C28 witness: older-than is set and aliases are excluded by default; of two
\* versions old enough the one bound to an alias was kept and the other one
\* deleted, and perform_action returned.
C28_Witness ==
    /\ tv.pc = "done" /\ tv.outcome = "returned"
    /\ "older-than" \in DOMAIN tv.data /\ tv.data["older-than"] = 1
    /\ "exclude-aliases" \notin DOMAIN tv.data
    /\ Len(tv.versions) = 2
    /\ \A n \in TVIdx : tv.versions[n].last_modified <= Now - 1
    /\ \E n \in TVIdx : tv.versions[n].version \in Bound \ {"latest"}
    /\ Len(tv.deleted) = 1

(***************************************************************************)
(* Part 6: actions/elb.py, the action create-lts-log-transfer              *)
(* (LoadbalancerCreateLTSLogTransferAction.process on one batch).          *)
(*   - create_transfer for a log topic ends "ok", with "SdkException"      *)
(*     (caught and logged by wrap_perform_action_log) or with "Exception", *)
(*     an exception of another class, which the wrapper lets through.      *)
(***************************************************************************)
MaxLbs == 3     \* largest batch of load balancers

\* process, lines 326-337: the settings left out or empty take a default
process_defaults(data) ==
    LET defaults == [log_transfer_type |-> "OBS", log_transfer_mode |-> "cycle",
                     log_transfer_status |-> "ENABLE", log_storage_format |-> "JSON",
                     obs_period |-> 2, obs_period_unit |-> "min"]
    IN  [k \in DOMAIN data \cup DOMAIN defaults |->
            IF k \in DOMAIN defaults /\ (k \notin DOMAIN data \/ ~Truthy(data[k]))
            THEN defaults[k] ELSE data[k]]

\* perform_action, lines 351-377: the request create_transfer is called with
CreateTransferRequest(data, resource) ==
    [log_group_id |-> data["log_group_id"], log_streams |-> data["log_streams"],
     log_transfer_mode |-> data["log_transfer_mode"], id |-> resource["id"]]

\* process up to the loop
ElbDefaults ==
    /\ elb.pc = "ready"
    /\ elb' = [elb EXCEPT !.data = process_defaults(@), !.pc = "loop"]
    /\ UNCHANGED <<tag_vars, nl_vars, sf_vars, fg_vars, coc_vars, tv, alarm>>

\* mutant: a topic is remembered only once its transfer was created
ElbStep_retry ==
    /\ elb.pc = "loop"
    /\ elb' = IF elb.idx > Len(elb.batch)
              THEN [elb EXCEPT !.outcome = "returned", !.pc = "done"]
              ELSE LET resource == elb.batch[elb.idx]
                       log_topic_id == resource["log_topic_id"]
                       data == DictPut(DictPut(elb.data, "log_group_id", resource["log_group_id"]),
                                       "log_streams", <<log_topic_id>>)
                   IN  IF log_topic_id \in SeqSet(elb.seen)
                       THEN [elb EXCEPT !.idx = @ + 1]
                       ELSE IF elb.api[log_topic_id] = "Exception"
                       THEN [elb EXCEPT !.data = data,
                                        !.calls = Append(@, CreateTransferRequest(data, resource)),
                                        !.outcome = "Exception", !.pc = "done"]
                       ELSE [elb EXCEPT !.data = data,
                                        !.calls = Append(@, CreateTransferRequest(data, resource)),
                                        !.seen = IF elb.api[log_topic_id] = "ok"
                                                 THEN Append(@, log_topic_id) ELSE @,
                                        !.idx = @ + 1]
    /\ UNCHANGED <<tag_vars, nl_vars, sf_vars, fg_vars, coc_vars, tv, alarm>>

\* one turn of the loop of lines 339-348 with the wrapped perform_action, or
\* the return of line 349
ElbStep ==
    /\ elb.pc = "loop"
    /\ elb' = IF elb.idx > Len(elb.batch)
              THEN [elb EXCEPT !.outcome = "returned", !.pc = "done"]
              ELSE LET resource == elb.batch[elb.idx]
                       log_topic_id == resource["log_topic_id"]
                       data == DictPut(DictPut(elb.data, "log_group_id", resource["log_group_id"]),
                                       "log_streams", <<log_topic_id>>)
                   IN  IF log_topic_id \in SeqSet(elb.seen)
                       THEN [elb EXCEPT !.idx = @ + 1]
                       ELSE IF elb.api[log_topic_id] = "Exception"
                       THEN [elb EXCEPT !.data = data,
                                        !.calls = Append(@, CreateTransferRequest(data, resource)),
                                        !.outcome = "Exception", !.pc = "done"]
                       ELSE [elb EXCEPT !.data = data,
                                        !.calls = Append(@, CreateTransferRequest(data, resource)),
                                        !.seen = Append(@, log_topic_id),
                                        !.idx = @ + 1]
    /\ UNCHANGED <<tag_vars, nl_vars, sf_vars, fg_vars, coc_vars, tv, alarm>>

LbId(i) == <<"lb-1", "lb-2", "lb-3", "lb-4", "lb-5">>[i]

InitElb ==
    /\ TagIdle /\ VpcIdle /\ FgIdle /\ CocIdle
    /\ tv = [pc |-> "idle"] /\ alarm = [pc |-> "idle"]
    /\ \E n \in 0..MaxLbs, mode \in Opt("log_transfer_mode", {"", "once"}),
          api \in [{"t1", "t2"} -> {"ok", "SdkException", "Exception"}] :
          \E groups \in [1..n -> {"g1", "g2"}], topics \in [1..n -> {"t1", "t2"}] :
             elb = [data |-> [type |-> "create-lts-log-transfer",
                              obs_bucket_name |-> "bucket"] @@ mode,
                    batch |-> [i \in 1..n |-> [id |-> LbId(i), log_group_id |-> groups[i],
                                               log_topic_id |-> topics[i]]],
                    api |-> api, idx |-> 1, seen |-> <<>>, calls |-> <<>>,
                    outcome |-> "none", pc |-> "ready"]

SpecElb == InitElb /\ [][ElbDefaults \/ ElbStep]_vars

(***************************************************************************)
(* Claims about create-lts-log-transfer.                                   *)
(***************************************************************************)
ElbIdx == 1..Len(elb.batch)
Carrying(topic) == {i \in ElbIdx : elb.batch[i]["log_topic_id"] = topic}
FirstCarrying(topic) == CHOOSE i \in Carrying(topic) : \A j \in Carrying(topic) : i <= j
CallsFor(topic) == {n \in 1..Len(elb.calls) : elb.calls[n].log_streams = <<topic>>}

\* C29: at any moment of process, create_transfer was called at most once
\* for each log topic, SDK errors included; each call was made for the first
\* load balancer of the batch, in input order, that carries the topic, with
\* the log group of that load balancer and that topic alone as its stream;
\* and when process returns, every topic of the batch has had its call.
C29_OneTransferPerTopic ==
    /\ \A n \in 1..Len(elb.calls) :
          \E topic \in {"t1", "t2"} :
             /\ CallsFor(topic) = {n}
             /\ Carrying(topic) # {}
             /\ elb.calls[n].id = elb.batch[FirstCarrying(topic)]["id"]
             /\ elb.calls[n].log_group_id = elb.batch[FirstCarrying(topic)]["log_group_id"]
    /\ (elb.pc = "done" /\ elb.outcome = "returned") =>
          \A i \in ElbIdx : CallsFor(elb.batch[i]["log_topic_id"]) # {}

\* C29 witness: a topic carried by two load balancers with different log
\* groups, whose transfer failed with an SDK error; process has returned and
\* made one call for it.
C29_Witness ==
    /\ elb.pc = "done" /\ elb.outcome = "returned"
    /\ \E topic \in {"t1", "t2"} :
          /\ elb.api[topic] = "SdkException"
          /\ \E i, j \in Carrying(topic) :
                i < j /\ elb.batch[i]["log_group_id"] # elb.batch[j]["log_group_id"]
          /\ Cardinality(CallsFor(topic)) = 1

(***************************************************************************)
(* Part 7: resources/coc.py, the action patch_non_compliant_alarm          *)
(* (PatchNonCompliantAlarm.process on one batch).                          *)
(*   - the text of a message is the sequence of its parts: the configured  *)
(*     message, then the host entries, each the values its f-string        *)
(*     formats (region, name, instance id, non-compliant count);           *)
(*   - publish_message for a topic ends "ok" or raises                     *)
(*     "ClientRequestException".                                           *)
(***************************************************************************)
MaxHosts == 2       \* largest batch of hosts
MaxTopics == 2      \* longest topic_urn_list

\* the loop of lines 87-95 from the value data of patch_non_compliant_data
RECURSIVE patch_non_compliant_data(_, _)
patch_non_compliant_data(rs, data) ==
    IF rs = <<>> THEN data
    ELSE LET resource == Head(rs)
         IN  patch_non_compliant_data(Tail(rs),
                 <<[region |-> Get(resource, "region", None),
                    ecs_name |-> Get(resource, "name", None),
                    ecs_instance_id |-> Get(resource, "instance_id", None),
                    non_compliant_count |->
                        resource["non_compliant_summary"]["non_compliant_count"]]>>)

\* process up to the loop over the topics, lines 71-95
AlarmStart ==
    /\ alarm.pc = "ready"
    /\ alarm' = IF alarm.batch = <<>>
                THEN [alarm EXCEPT !.outcome = "returned", !.pc = "done"]
                ELSE IF Len(Get(alarm.data, "topic_urn_list", <<>>)) < 1
                THEN [alarm EXCEPT !.outcome = "PolicyValidationError", !.pc = "done"]
                ELSE [alarm EXCEPT !.hosts = patch_non_compliant_data(alarm.batch, <<>>),
                                   !.pc = "loop"]
    /\ UNCHANGED <<tag_vars, nl_vars, sf_vars, fg_vars, coc_vars, tv, elb>>

\* one turn of the loop of lines 97-116, or the return of line 117
AlarmPublish ==
    /\ alarm.pc = "loop"
    /\ LET topic_urn_list == alarm.data["topic_urn_list"]
       IN  alarm' =
               IF alarm.idx > Len(topic_urn_list)
               THEN [alarm EXCEPT !.outcome = "returned", !.pc = "done"]
               ELSE LET topic_urn == topic_urn_list[alarm.idx]
                        request == [topic_urn |-> topic_urn,
                                    subject |-> Get(alarm.data, "subject",
                                                    "Patch Security Non-Compliance Alert"),
                                    message |-> <<Get(alarm.data, "message",
                                                      "Non-Compliance patches are detected")>>
                                                \o alarm.hosts]
                    IN  IF alarm.api[topic_urn] = "ok"
                        THEN [alarm EXCEPT !.sent = Append(@, request),
                                           !.results = Append(@, [status |-> "success",
                                                                  topic_urn |-> topic_urn]),
                                           !.idx = @ + 1]
                        ELSE [alarm EXCEPT !.sent = Append(@, request),
                                           !.outcome = "ClientRequestException",
                                           !.pc = "done"]
    /\ UNCHANGED <<tag_vars, nl_vars, sf_vars, fg_vars, coc_vars, tv, elb>>

InitAlarm ==
    /\ TagIdle /\ VpcIdle /\ FgIdle /\ CocIdle
    /\ tv = [pc |-> "idle"] /\ elb = [pc |-> "idle"]
    /\ \E n \in 0..MaxHosts, t \in 0..MaxTopics, message \in Opt("message", {"text"}),
          api \in [{"urn-a", "urn-b"} -> {"ok", "ClientRequestException"}] :
          \E counts \in [1..n -> {1, 2}], topics \in [1..t -> {"urn-a", "urn-b"}] :
             alarm = [data |-> [type |-> "patch_non_compliant_alarm",
                                topic_urn_list |-> topics] @@ message,
                      batch |-> [i \in 1..n |->
                                    [name |-> <<"ecs-1", "ecs-2", "ecs-3">>[i],
                                     region |-> "cn-north-4",
                                     instance_id |-> <<"i-1", "i-2", "i-3">>[i],
                                     non_compliant_summary |->
                                         [non_compliant_count |-> counts[i]]]],
                      api |-> api, idx |-> 1, hosts |-> <<>>, sent |-> <<>>,
                      results |-> <<>>, outcome |-> "none", pc |-> "ready"]

SpecAlarm == InitAlarm /\ [][AlarmStart \/ AlarmPublish]_vars

(***************************************************************************)
(* Claims about patch_non_compliant_alarm.                                 *)
(***************************************************************************)
TopicUrnList == alarm.data["topic_urn_list"]
FailingTopics == {k \in 1..Len(TopicUrnList) : alarm.api[TopicUrnList[k]] # "ok"}
\* the topics process gets to: all of them, or those up to the first whose
\* publish fails
Published ==
    IF FailingTopics = {} THEN TopicUrnList
    ELSE SubSeq(TopicUrnList, 1, CHOOSE k \in FailingTopics : \A j \in FailingTopics : k <= j)
HostEntry(resource) ==
    [region |-> resource.region, ecs_name |-> resource.name,
     ecs_instance_id |-> resource.instance_id,
     non_compliant_count |-> resource.non_compliant_summary.non_compliant_count]

\* C30 as stated: for a batch and a topic_urn_list that are not empty, one
\* message is published per topic, in list order, up to the first topic whose
\* publish fails, which ends process with that exception; the body of each
\* message holds, after the configured text, one host entry (region, name,
\* instance id, non-compliant count) for every resource of the batch.
C30_AsStated ==
    (alarm.pc = "done" /\ alarm.batch # <<>> /\ TopicUrnList # <<>>) =>
        /\ [n \in 1..Len(alarm.sent) |-> alarm.sent[n].topic_urn] = Published
        /\ alarm.outcome = IF FailingTopics = {} THEN "returned" ELSE "ClientRequestException"
        /\ \A n \in 1..Len(alarm.sent) :
              Tail(alarm.sent[n].message) =
                  [i \in 1..Len(alarm.batch) |-> HostEntry(alarm.batch[i])]

====
